---- MODULE Spec2Model ----
(***************************************************************************)
(* A model of recmari's HUD decoding core: the generic bar-boundary        *)
(* scanner (analysis/common.rs), the special-gauge reader                  *)
(* (analysis/huds/manemon/sa.rs), the drive-gauge reader (od.rs), the      *)
(* health reader (hp.rs and the generic strategy of huds/manemon.rs), HUD  *)
(* detection (manemon/mod.rs) and the frame collection and round           *)
(* segmentation of the pipeline (pipeline.rs).                             *)
(*                                                                         *)
(* Numbers.  An f64 ratio is kept as an exact fraction [num, den]; a       *)
(* division by zero keeps den = 0 (0/0 is NaN, n/0 with n > 0 is +inf), so *)
(* that comparisons on it can be made as IEEE-754 makes them.  Health      *)
(* values of the pipeline are kept in hundredths (0.95 is 95).             *)
(***************************************************************************)
EXTENDS Integers, Sequences, FiniteSets, TLC

VARIABLES
    pc,            \* position of the running operation
    caller,        \* the operation under way: "scan" (find_bar_boundary called
                   \* directly), "sa", "od", "split", "run"
    image,         \* the RgbImage: [width, height, px]
    classifier,    \* the classifier closure handed to find_bar_boundary
    scanline,      \* the Scanline argument: [x_start, x_end, y]
    i,             \* loop index of find_bar_boundary
    prev_segment,  \* find_bar_boundary's prev_segment
    last_fg_i,     \* find_bar_boundary's last_fg_i (an Option)
    sampled,       \* the x coordinates find_bar_boundary has read, in order
    bar_fill,      \* what find_bar_boundary returned
    probes,        \* read_sa_value's probes argument
    stock,         \* read_sa_value's stock (an Option)
    sa_value,      \* what read_sa_value returned
    frames,        \* the frames handed to split_into_rounds
    rounds,        \* the rounds split_into_rounds returned
    match,         \* the Match segment_into_match built (an Option)
    frame_count,   \* VideoDecoder.frame_count
    config,        \* the PipelineConfig: [sample_rate, max_frames]
    results,       \* collect_frame_data's results
    last_p1,       \* collect_frame_data's last_p1
    last_p2,       \* collect_frame_data's last_p2
    readings,      \* every sampled frame so far: [frame_number, hp, emitted]
    stream,        \* how the last decoder.next_frame() found the ffmpeg pipe
    matches,       \* the Vec<Match> of run_pipeline's Ok
    outcome,       \* what run_pipeline returned
    od_i,          \* read_od_value's loop index i
    last_state,    \* read_od_value's last_state
    od_states,     \* the states classify_od_segment has returned, in order
    od_value,      \* what read_od_value returned
    hud_i,         \* detect_hud's loop index i
    detected,      \* what detect_hud returned
    hp_reading     \* what analyze_hp returned for one player

vars == << pc, caller, image, classifier, scanline, i, prev_segment, last_fg_i,
           sampled, bar_fill, probes, stock, sa_value, frames, rounds, match,
           frame_count, config, results, last_p1, last_p2, readings, stream,
           matches, outcome, od_i, last_state, od_states, od_value, hud_i,
           detected, hp_reading >>

scanVars == << i, prev_segment, last_fg_i, sampled, bar_fill >>
inputVars == << image, classifier, scanline, probes >>
saVars == << stock, sa_value >>
splitVars == << frames, rounds, match >>
collectVars == << frame_count, config, results, last_p1, last_p2, readings,
                 stream, matches, outcome >>
hudVars == << hud_i, detected, hp_reading >>
gaugeVars == << od_i, last_state, od_states, od_value, hudVars >>

(***************************************************************************)
(* Bounds of the model.                                                    *)
(***************************************************************************)
\* width of the model's images (the code's frames are 1920 wide)
ImgW == 3
\* height of the images the scanner is tried on
ImgH == 1
\* longest frame sequence handed to split_into_rounds
MaxFrames == 5
\* most frames the decoder yields before the stream ends
MaxDecoded == 4

(***************************************************************************)
(* Option<T>: None is the empty sequence, Some(v) the sequence <<v>>.      *)
(***************************************************************************)
None == << >>
Some(v) == << v >>
IsSome(o) == o # None
Unwrap(o) == o[1]
\* Option::or
OptionOr(a, b) == IF IsSome(a) THEN a ELSE b

Max2(a, b) == IF a >= b THEN a ELSE b
Min2(a, b) == IF a <= b THEN a ELSE b
Abs(a) == IF a >= 0 THEN a ELSE -a

(***************************************************************************)
(* f64 ratios.                                                             *)
(***************************************************************************)
Frac(n, d) == [num |-> n, den |-> d]
\* f <= 1.0 as IEEE-754 compares: false for NaN and for +inf
LeOne(f) == f.den > 0 /\ f.num <= f.den
\* 0.0 <= f
GeZero(f) == (f.den > 0 /\ f.num >= 0) \/ (f.den = 0 /\ f.num > 0)
\* f < 1.0 as IEEE-754 compares: false for NaN and for +inf
LtOne(f) == f.den > 0 /\ f.num < f.den
\* f == 1.0
IsOne(f) == f.den > 0 /\ f.num = f.den
\* f == 0.0
IsZero(f) == f.den > 0 /\ f.num = 0
\* n as f64 + f
AddInt(n, f) == Frac(n * f.den + f.num, f.den)

(***************************************************************************)
(* Colours.  A pixel is an Rgb<u8> triple; rgb_to_hsv is computed in       *)
(* integers: h in thousandths of a degree, s and v in thousandths.         *)
(***************************************************************************)
Max3(r, g, b) == Max2(Max2(r, g), b)
Min3(r, g, b) == Min2(Min2(r, g), b)

rgb_to_hsv(rgb) ==
    LET r == rgb[1]
        g == rgb[2]
        b == rgb[3]
        max == Max3(r, g, b)
        min == Min3(r, g, b)
        delta == max - min
        v == (1000 * max) \div 255
        s == IF max > 0 THEN (1000 * delta) \div max ELSE 0
        h0 == IF delta = 0 THEN 0
              ELSE IF max = r THEN (60000 * (g - b)) \div delta
              ELSE IF max = g THEN (60000 * (b - r)) \div delta + 120000
              ELSE (60000 * (r - g)) \div delta + 240000
        h == IF h0 < 0 THEN h0 + 360000 ELSE h0
    IN  [h |-> h, s |-> s, v |-> v]

\* SA gauge fill of player 1 (pink)
PINK == << 230, 115, 172 >>
\* depleted gauge background (dark blue)
EMPTY == << 4, 70, 180 >>
\* an effect covering the HUD
DARK == << 10, 10, 10 >>
\* the golden "CA" text
GOLD == << 220, 160, 40 >>
\* blue interior of a stock digit
BLUE == << 30, 100, 230 >>
\* yellow outline of a stock digit
YELLOW == << 230, 230, 100 >>

BarSegment == {"Unknown", "Foreground", "Background"}

(***************************************************************************)
(* Scanline (analysis/common.rs).                                          *)
(***************************************************************************)
\* Scanline::dx
ScanDx(s) == IF s.x_end > s.x_start THEN 1 ELSE -1
\* Scanline::width
ScanWidth(s) == Abs(s.x_start - s.x_end)
\* u32::saturating_add_signed; the saturation at u32::MAX is out of reach of
\* the model's coordinates, the one at 0 is kept
saturating_add_signed(x, d) == Max2(x + d, 0)
\* the x coordinate of sample k of a scanline
SampleX(s, k) == saturating_add_signed(s.x_start, k * ScanDx(s))
\* the bounds check of RgbImage::get_pixel
InImage(img, x, y) == x < img.width /\ y < img.height

(***************************************************************************)
(* What a call returned: Some(val), None, or a panic (a failed assert! or  *)
(* an out-of-bounds get_pixel).  "Pending" while it has not returned.      *)
(***************************************************************************)
RetSome(f) == [kind |-> "Some", val |-> f]
RetNone == [kind |-> "None", val |-> Frac(0, 1)]
RetPanic == [kind |-> "Panic", val |-> Frac(0, 1)]
Pending == [kind |-> "Pending", val |-> Frac(0, 1)]
\* the loop goes on to the next pixel
Continue == [kind |-> "Continue", val |-> Frac(0, 1)]

(***************************************************************************)
(* find_bar_boundary (analysis/common.rs).                                 *)
(***************************************************************************)
\* the two assert!s at the head of find_bar_boundary
PreconditionsHold(img, s) == s.x_end <= img.width /\ s.y < img.height

\* AtBackground with the hidden border guessed at the Background pixel
\* a Background met behind a hidden border is passed over
AtBackground_SkipHidden(k, prev, last, w) ==
    IF prev = "Foreground" THEN RetSome(Frac(k, w))
    ELSE IF prev = "Unknown" /\ IsSome(last)
         THEN RetSome(Frac(Unwrap(last) + 1, w))
         ELSE Continue

AtBackground_GuessHidden(k, prev, last, w) ==
    IF prev = "Foreground" THEN RetSome(Frac(k, w))
    ELSE IF prev = "Unknown"
         THEN IF IsSome(last) THEN RetSome(Frac(Unwrap(last) + 1, w))
              ELSE RetSome(Frac(k, w))
         ELSE Continue

\* the BarSegment::Background arm of the match, at loop index k
AtBackground(k, prev, last, w) ==
    IF prev = "Foreground" THEN RetSome(Frac(k, w))
    ELSE IF prev = "Unknown"
         THEN IF IsSome(last) THEN RetSome(Frac(Unwrap(last) + 1, w))
              ELSE RetNone
         ELSE Continue

\* AtEnd without the test of prev_segment
AtEnd_NoPrevTest(prev, last, w) ==
    IF IsSome(last)
    THEN RetSome(Frac(Unwrap(last) + 1, w))
    ELSE RetSome(Frac(1, 1))

\* the code after the loop
AtEnd(prev, last, w) ==
    IF prev = "Unknown" /\ IsSome(last)
    THEN RetSome(Frac(Unwrap(last) + 1, w))
    ELSE RetSome(Frac(1, 1))

\* the update of last_fg_i in the match
\* only the first Foreground sample is remembered
NextLastFg_KeepFirst(seg, k, last) ==
    IF seg = "Foreground" /\ last = None THEN Some(k) ELSE last

NextLastFg(seg, k, last) == IF seg = "Foreground" THEN Some(k) ELSE last

\* find_bar_boundary hands r back to its caller; a panic unwinds the caller
ReturnFromScan(r) ==
    /\ bar_fill' = r
    /\ pc' = IF caller = "sa" /\ r.kind # "Panic" THEN "sa_ret"
             ELSE IF caller = "sa_legacy" /\ r.kind # "Panic" THEN "sa_legacy_ret"
             ELSE IF caller = "od" THEN "od_ret"
             ELSE IF caller = "hp_generic" THEN "hp_ret"
             ELSE "done"
    /\ sa_value' = IF caller \in {"sa", "sa_legacy"} /\ r.kind = "Panic"
                   THEN RetPanic
                   ELSE sa_value

\* entry: the assertions, then the loop state
find_bar_boundary_enter ==
    /\ pc = "fbb_enter"
    /\ IF PreconditionsHold(image, scanline)
       THEN /\ i' = 0
            /\ prev_segment' = "Foreground"
            /\ last_fg_i' = None
            /\ pc' = "fbb_loop"
            /\ UNCHANGED << sampled, bar_fill, sa_value >>
       ELSE /\ ReturnFromScan(RetPanic)
            /\ UNCHANGED << i, prev_segment, last_fg_i, sampled >>
    /\ UNCHANGED << caller, inputVars, stock, splitVars, collectVars, gaugeVars >>

\* one iteration of `for i in 0..=width`
find_bar_boundary_pixel ==
    /\ pc = "fbb_loop"
    /\ i <= ScanWidth(scanline)
    /\ LET x == SampleX(scanline, i)
           w == ScanWidth(scanline)
       IN  /\ sampled' = Append(sampled, x)
           /\ IF ~InImage(image, x, scanline.y)
              THEN /\ ReturnFromScan(RetPanic)
                   /\ UNCHANGED << i, prev_segment, last_fg_i >>
              ELSE LET segment == classifier[image.px[<< x, scanline.y >>]]
                       r == IF segment = "Background"
                            THEN AtBackground(i, prev_segment, last_fg_i, w)
                            ELSE Continue
                   IN  IF r.kind = "Continue"
                       THEN /\ last_fg_i' = NextLastFg(segment, i, last_fg_i)
                            /\ prev_segment' = segment
                            /\ i' = i + 1
                            /\ UNCHANGED << pc, bar_fill, sa_value >>
                       ELSE /\ ReturnFromScan(r)
                            /\ UNCHANGED << i, prev_segment, last_fg_i >>
    /\ UNCHANGED << caller, inputVars, stock, splitVars, collectVars, gaugeVars >>

\* the loop ran to its end
find_bar_boundary_end ==
    /\ pc = "fbb_loop"
    /\ i > ScanWidth(scanline)
    /\ ReturnFromScan(AtEnd(prev_segment, last_fg_i, ScanWidth(scanline)))
    /\ UNCHANGED << i, prev_segment, last_fg_i, sampled >>
    /\ UNCHANGED << caller, inputVars, stock, splitVars, collectVars, gaugeVars >>

(***************************************************************************)
(* Images of the model.                                                    *)
(***************************************************************************)
\* an image of w x h pixels all of whose rows are `row`
RowImage(w, h, row) ==
    [width |-> w, height |-> h,
     px |-> [p \in (0 .. w - 1) \X (0 .. h - 1) |-> row[p[1]]]]

NoImage == [width |-> 0, height |-> 0, px |-> << >>]
NoScanline == [x_start |-> 0, x_end |-> 0, y |-> 0]
NoConfig == [sample_rate |-> 1, max_frames |-> None]

\* colours of the images the scanner is tried on
ScanColours == {PINK, EMPTY, DARK}

\* the state of the operations that are not running
IdleScan ==
    /\ i = 0
    /\ prev_segment = "Foreground"
    /\ last_fg_i = None
    /\ sampled = << >>
    /\ bar_fill = Pending
IdleSa ==
    /\ probes = << >>
    /\ stock = None
    /\ sa_value = Pending
IdleSplit ==
    /\ frames = << >>
    /\ rounds = << >>
    /\ match = None
IdleCollect ==
    /\ frame_count = 0
    /\ config = NoConfig
    /\ results = << >>
    /\ last_p1 = None
    /\ last_p2 = None
    /\ readings = << >>
    /\ stream = "open"
    /\ matches = << >>
    /\ outcome = "Pending"
IdleGauge ==
    /\ od_i = 0
    /\ last_state = << >>
    /\ od_states = << >>
    /\ od_value = Pending
    /\ hud_i = 0
    /\ detected = Pending
    /\ hp_reading = Pending

(***************************************************************************)
(* SpecScan: find_bar_boundary on every image row, scanline and classifier *)
(* of the bounds.                                                          *)
(***************************************************************************)
InitScan ==
    /\ pc = "fbb_enter"
    /\ caller = "scan"
    /\ image \in {RowImage(ImgW, ImgH, row) : row \in [0 .. ImgW - 1 -> ScanColours]}
    /\ classifier \in [ScanColours -> BarSegment]
    /\ scanline \in [x_start : 0 .. ImgW, x_end : 0 .. ImgW + 1, y : 0 .. ImgH]
    /\ IdleScan /\ IdleSa /\ IdleSplit /\ IdleCollect /\ IdleGauge

NextScan ==
    \/ find_bar_boundary_enter
    \/ find_bar_boundary_pixel
    \/ find_bar_boundary_end

SpecScan == InitScan /\ [][NextScan]_vars

(***************************************************************************)
(* Properties of find_bar_boundary (SpecScan).                             *)
(***************************************************************************)
\* sample k of the scanline lies in the image
SampleInImage(k) == InImage(image, SampleX(scanline, k), scanline.y)
\* the BarSegment of sample k
SegAt(k) == classifier[image.px[<< SampleX(scanline, k), scanline.y >>]]
\* every pixel of the scanline, indices 0..=width, classifies as seg
AllSamplesAre(seg) ==
    \A k \in 0 .. ScanWidth(scanline) : SampleInImage(k) /\ SegAt(k) = seg
\* find_bar_boundary has returned to its caller (it did not panic)
ScanReturned == bar_fill.kind \in {"Some", "None"}

\* C1: whenever find_bar_boundary returns Some(v), 0.0 <= v <= 1.0, zero-width
\* scanlines included.
C1_BoundaryInUnit ==
    bar_fill.kind = "Some" => GeZero(bar_fill.val) /\ LeOne(bar_fill.val)

\* C6: if every pixel along the scanline (indices 0..=width) classifies as
\* Foreground, find_bar_boundary returns exactly Some(1.0).
C6_AllForegroundIsOne ==
    (pc = "done" /\ caller = "scan" /\ AllSamplesAre("Foreground"))
        => (bar_fill.kind = "Some" /\ IsOne(bar_fill.val))

C6_Witness ==
    /\ pc = "done" /\ caller = "scan"
    /\ AllSamplesAre("Foreground")
    /\ ScanWidth(scanline) = ImgW - 1
    /\ Len(sampled) = ImgW
    /\ bar_fill.kind = "Some"

\* C7: if the pixel at x_start (scan index 0) is Background, find_bar_boundary
\* returns a boundary of 0.0, for every scanline and whatever the other pixels.
C7_FirstBackgroundIsZero ==
    (ScanReturned /\ caller = "scan" /\ SampleInImage(0) /\ SegAt(0) = "Background")
        => (bar_fill.kind = "Some" /\ IsZero(bar_fill.val))

\* the scan begins with a run of k >= 1 Unknown pixels directly followed by a
\* Background pixel
UnknownRunThenBackground ==
    \E k \in 1 .. ScanWidth(scanline) :
        /\ \A j \in 0 .. k - 1 : SampleInImage(j) /\ SegAt(j) = "Unknown"
        /\ SampleInImage(k) /\ SegAt(k) = "Background"

\* C8: a scan that begins with a run of one or more Unknown pixels directly
\* followed by a Background pixel (no Foreground seen) returns None.
C8_HiddenBorderIsNone ==
    (pc = "done" /\ caller = "scan" /\ PreconditionsHold(image, scanline)
        /\ UnknownRunThenBackground)
        => bar_fill = RetNone

C8_Witness ==
    /\ pc = "done" /\ caller = "scan"
    /\ PreconditionsHold(image, scanline)
    /\ UnknownRunThenBackground
    /\ Len(sampled) >= 3
    /\ bar_fill.kind = "None"

\* the scan starts with an Unknown pixel and classifies no Foreground pixel
\* before it stops, at the first Background pixel or at the end of the scanline
StartsUnknownNoForeground == UnknownRunThenBackground \/ AllSamplesAre("Unknown")

\* C19: if the scan starts with an Unknown pixel and no Foreground pixel is
\* classified before the scan stops (at the first Background pixel or at the
\* end of the scanline), find_bar_boundary returns None; a scanline whose
\* pixels all classify as Unknown never yields a boundary value.
C19_AllOccludedIsNone ==
    (pc = "done" /\ caller = "scan" /\ PreconditionsHold(image, scanline)
        /\ StartsUnknownNoForeground)
        => bar_fill = RetNone

(***************************************************************************)
(* Round segmentation (pipeline.rs).  A FrameData is                       *)
(* [frame_number, p1, p2], the health ratios in hundredths.                *)
(***************************************************************************)
ROUND_RESET_THRESHOLD == 95
DAMAGE_THRESHOLD == 50

FrameData(n, p1, p2) == [frame_number |-> n, p1 |-> p1, p2 |-> p2]

\* `p1 < DAMAGE_THRESHOLD || p2 < DAMAGE_THRESHOLD`
IsDamage(p1, p2) == p1 < DAMAGE_THRESHOLD \/ p2 < DAMAGE_THRESHOLD

\* is_reset without the had_damage flag
IsReset_Unarmed(had, p1, p2) ==
    p1 >= ROUND_RESET_THRESHOLD /\ p2 >= ROUND_RESET_THRESHOLD

\* `had_damage && p1 >= ROUND_RESET_THRESHOLD && p2 >= ROUND_RESET_THRESHOLD`
IsReset(had, p1, p2) ==
    had /\ p1 >= ROUND_RESET_THRESHOLD /\ p2 >= ROUND_RESET_THRESHOLD

\* had_damage is left set at a round boundary
SplitStep_KeepFlag(st, fd) ==
    LET had == st.had_damage \/ IsDamage(fd.p1, fd.p2)
        is_reset == IsReset(had, fd.p1, fd.p2)
        opened == IF is_reset THEN Append(st.rounds, << >>) ELSE st.rounds
    IN  [rounds |-> [opened EXCEPT ![Len(opened)] = Append(@, fd)],
         had_damage |-> had]

\* SplitStep that pushes the frame before it opens the new round
SplitStep_PushFirst(st, fd) ==
    LET had == st.had_damage \/ IsDamage(fd.p1, fd.p2)
        is_reset == IsReset(had, fd.p1, fd.p2)
        pushed == [st.rounds EXCEPT ![Len(st.rounds)] = Append(@, fd)]
    IN  [rounds |-> IF is_reset THEN Append(pushed, << >>) ELSE pushed,
         had_damage |-> IF is_reset THEN FALSE ELSE had]

\* SplitStep that opens the new round and goes on to the next frame without
\* pushing the frame that opened it
SplitStep_SkipResetFrame(st, fd) ==
    LET had == st.had_damage \/ IsDamage(fd.p1, fd.p2)
        is_reset == IsReset(had, fd.p1, fd.p2)
    IN  IF is_reset
        THEN [rounds |-> Append(st.rounds, << >>), had_damage |-> FALSE]
        ELSE [rounds |-> [st.rounds EXCEPT ![Len(st.rounds)] = Append(@, fd)],
              had_damage |-> had]

\* the body of `for fd in frames`, on the loop state [rounds, had_damage]
SplitStep(st, fd) ==
    LET had == st.had_damage \/ IsDamage(fd.p1, fd.p2)
        is_reset == IsReset(had, fd.p1, fd.p2)
        opened == IF is_reset THEN Append(st.rounds, << >>) ELSE st.rounds
    IN  [rounds |-> [opened EXCEPT ![Len(opened)] = Append(@, fd)],
         had_damage |-> IF is_reset THEN FALSE ELSE had]

\* the loop state after the first n frames
RECURSIVE SplitLoop(_, _)
SplitLoop(fs, n) ==
    IF n = 0 THEN [rounds |-> << << >> >>, had_damage |-> FALSE]
    ELSE SplitStep(SplitLoop(fs, n - 1), fs[n])

\* Vec::retain(|r| !r.is_empty())
RECURSIVE RetainNonEmpty(_)
RetainNonEmpty(rs) ==
    IF rs = << >> THEN << >>
    ELSE IF Head(rs) = << >> THEN RetainNonEmpty(Tail(rs))
    ELSE << Head(rs) >> \o RetainNonEmpty(Tail(rs))

split_into_rounds(fs) ==
    IF fs = << >> THEN << >>
    ELSE RetainNonEmpty(SplitLoop(fs, Len(fs)).rounds)

\* make_round
make_round(round_index, fs) == [round_index |-> round_index, frames |-> fs]

\* segment_into_match that leaves out the last round, the one the end of the
\* stream may have cut short
segment_into_match_DropLastRound(fs) ==
    LET round_frames == split_into_rounds(fs)
    IN  [rounds |-> [k \in 1 .. Len(round_frames) - 1 |->
                        make_round(k - 1, round_frames[k])]]

\* segment_into_match: the rounds of split_into_rounds, enumerated from 0
\* (the Match's source metadata takes no part in the segmentation)
segment_into_match(fs) ==
    LET round_frames == split_into_rounds(fs)
    IN  [rounds |-> [k \in 1 .. Len(round_frames) |->
                        make_round(k - 1, round_frames[k])]]

\* the (p1, p2) health pairs of the frames given to split_into_rounds
HealthPairs ==
    { << 100, 100 >>, << 60, 30 >>, << 80, 0 >>, << 90, 80 >>,
      << 95, 95 >>, << 94, 100 >>, << 49, 100 >>, << 50, 50 >> }

\* the frames numbered 0, 1, ... with the health pairs hs
MkFrames(hs) == [k \in 1 .. Len(hs) |-> FrameData(k - 1, hs[k][1], hs[k][2])]

(***************************************************************************)
(* SpecSplit: split_into_rounds on every frame sequence of the bounds.     *)
(***************************************************************************)
InitSplit ==
    /\ pc \in {"split_enter", "segment_enter"}
    /\ caller = "split"
    /\ frames \in {MkFrames(hs) :
                     hs \in UNION {[1 .. n -> HealthPairs] : n \in 0 .. MaxFrames}}
    /\ rounds = << >>
    /\ match = None
    /\ image = NoImage
    /\ classifier = << >>
    /\ scanline = NoScanline
    /\ IdleScan /\ IdleSa /\ IdleCollect /\ IdleGauge

split_into_rounds_call ==
    /\ pc = "split_enter"
    /\ rounds' = split_into_rounds(frames)
    /\ pc' = "done"
    /\ UNCHANGED << caller, inputVars, scanVars, saVars, frames, match, collectVars,
                    gaugeVars >>

\* a call of segment_into_match(frames, input)
segment_into_match_call ==
    /\ pc = "segment_enter"
    /\ match' = Some(segment_into_match(frames))
    /\ rounds' = split_into_rounds(frames)
    /\ pc' = "done"
    /\ UNCHANGED << caller, inputVars, scanVars, saVars, frames, collectVars,
                    gaugeVars >>

NextSplit ==
    \/ split_into_rounds_call
    \/ segment_into_match_call

SpecSplit == InitSplit /\ [][NextSplit]_vars

(***************************************************************************)
(* Properties of split_into_rounds (SpecSplit).                            *)
(***************************************************************************)
SplitDone == pc = "done" /\ caller = "split"

\* index in frames of the first frame of round r
RECURSIVE RoundStart(_)
RoundStart(r) == IF r = 1 THEN 1 ELSE RoundStart(r - 1) + Len(rounds[r - 1])

BothFull(fd) == fd.p1 >= ROUND_RESET_THRESHOLD /\ fd.p2 >= ROUND_RESET_THRESHOLD

\* frame k is the recovery that follows the drop at frame j: the first frame
\* after j with both sides at or above 0.95
RecoveryAfter(j, k) ==
    /\ j < k
    /\ IsDamage(frames[j].p1, frames[j].p2)
    /\ BothFull(frames[k])
    /\ \A m \in j + 1 .. k - 1 : ~BothFull(frames[m])

\* the frames of the test split_detects_round_boundary
BoundaryExample ==
    MkFrames(<< << 100, 100 >>, << 60, 30 >>, << 80, 0 >>, << 100, 100 >>, << 90, 80 >> >>)

\* C2: when a frame has a side's health below 0.5 and a later frame is the
\* recovery (both sides at or above 0.95), a new round starts at the recovery
\* frame: it is the first frame of its round, and the frames from the drop up
\* to it stay in the round before; the tested frames give rounds of 3 and 2.
C2_NewRoundAtRecovery ==
    SplitDone =>
        /\ \A j, k \in 1 .. Len(frames) :
              RecoveryAfter(j, k) =>
                  \E r \in 2 .. Len(rounds) :
                      /\ RoundStart(r) = k
                      /\ rounds[r][1] = frames[k]
                      /\ RoundStart(r - 1) <= j
                      /\ rounds[r - 1] = SubSeq(frames, RoundStart(r - 1), k - 1)
        /\ frames = BoundaryExample =>
              rounds = << SubSeq(frames, 1, 3), SubSeq(frames, 4, 5) >>

C2_Witness ==
    /\ SplitDone
    /\ frames = BoundaryExample
    /\ RecoveryAfter(2, 4)
    /\ Len(rounds) = 2 /\ Len(rounds[1]) = 3 /\ Len(rounds[2]) = 2

NeverDamaged == \A k \in 1 .. Len(frames) : ~IsDamage(frames[k].p1, frames[k].p2)

\* C3: an empty frame sequence yields zero rounds; a non-empty one in which
\* neither side's health is ever below 0.5 yields exactly one round holding
\* every frame.
C3_NoDamageOneRound ==
    SplitDone =>
        /\ frames = << >> => rounds = << >>
        /\ (frames # << >> /\ NeverDamaged) => rounds = << frames >>

C3_Witness ==
    /\ SplitDone
    /\ Len(frames) >= 3
    /\ NeverDamaged
    /\ \E k \in 2 .. Len(frames) : BothFull(frames[k])
    /\ rounds = << frames >>

\* segment_into_match has returned its Match
MatchBuilt == pc = "done" /\ caller = "split" /\ IsSome(match)

\* the frames of the Rounds rs, concatenated in the order of rs
RECURSIVE ConcatFrames(_)
ConcatFrames(rs) ==
    IF rs = << >> THEN << >>
    ELSE ConcatFrames(SubSeq(rs, 1, Len(rs) - 1)) \o rs[Len(rs)].frames

\* C18: the rounds of the Match built by segment_into_match partition the
\* input: they carry round_index 0, 1, ..., n-1 in order of occurrence, every
\* round is non-empty, and the rounds' frames concatenated in index order are
\* the input frame sequence (no frame lost, duplicated or reordered).
C18_RoundsPartitionInput ==
    MatchBuilt =>
        LET rs == Unwrap(match).rounds
        IN  /\ \A k \in 1 .. Len(rs) :
                  rs[k].round_index = k - 1 /\ rs[k].frames # << >>
            /\ ConcatFrames(rs) = frames

\* a Match of three rounds
C18_Witness ==
    /\ MatchBuilt
    /\ Len(Unwrap(match).rounds) = 3
    /\ Unwrap(match).rounds[3].round_index = 2
    /\ Len(frames) >= 5

(***************************************************************************)
(* Frame collection and run_pipeline (pipeline.rs).  The Hud is a trait    *)
(* object: analyze_hp yields, for each side, None or a health ratio.       *)
(***************************************************************************)
\* health ratios analyze_hp reads, in hundredths
HpValues == {30, 100}
HpReadings == {None} \cup {Some(v) : v \in HpValues}

\* the PipelineConfig values tried: sample_rate, max_frames
Configs == [sample_rate : 0 .. 2, max_frames : {None, Some(2)}]

\* CarryForward that prefers the remembered value to the frame's own
CarryForward_StaleFirst(hp, last) == OptionOr(last, hp)

\* `hp.p1.or(last_p1)`
CarryForward(hp, last) == OptionOr(hp, last)

\* `if hp.p1.is_some() { last_p1 = Some(p1); }`
Remember(hp, p, last) == IF IsSome(hp) THEN p ELSE last

\* ProcessFrame that drops a frame on which neither side is readable
ProcessFrame_SkipUnreadable(st, n, hp1, hp2) ==
    LET p1 == CarryForward(hp1, st.last_p1)
        p2 == CarryForward(hp2, st.last_p2)
    IN  IF IsSome(p1) /\ IsSome(p2) /\ (IsSome(hp1) \/ IsSome(hp2))
        THEN [results |-> Append(st.results, FrameData(n, Unwrap(p1), Unwrap(p2))),
              last_p1 |-> Remember(hp1, p1, st.last_p1),
              last_p2 |-> Remember(hp2, p2, st.last_p2)]
        ELSE st

\* ProcessFrame that remembers a reading before it decides to skip the frame
ProcessFrame_RememberSkipped(st, n, hp1, hp2) ==
    LET p1 == CarryForward(hp1, st.last_p1)
        p2 == CarryForward(hp2, st.last_p2)
    IN  IF IsSome(p1) /\ IsSome(p2)
        THEN [results |-> Append(st.results, FrameData(n, Unwrap(p1), Unwrap(p2))),
              last_p1 |-> Remember(hp1, p1, st.last_p1),
              last_p2 |-> Remember(hp2, p2, st.last_p2)]
        ELSE [results |-> st.results,
              last_p1 |-> Remember(hp1, p1, st.last_p1),
              last_p2 |-> Remember(hp2, p2, st.last_p2)]

\* the loop body of collect_frame_data from analyze_hp on, for frame n read
\* as (hp1, hp2), on the loop state [results, last_p1, last_p2]
ProcessFrame(st, n, hp1, hp2) ==
    LET p1 == CarryForward(hp1, st.last_p1)
        p2 == CarryForward(hp2, st.last_p2)
    IN  IF IsSome(p1) /\ IsSome(p2)
        THEN [results |-> Append(st.results, FrameData(n, Unwrap(p1), Unwrap(p2))),
              last_p1 |-> Remember(hp1, p1, st.last_p1),
              last_p2 |-> Remember(hp2, p2, st.last_p2)]
        ELSE st

\* `config.max_frames.is_none() && frame.frame_number % config.sample_rate != 0`
FilteredOut(cfg, n) == cfg.max_frames = None /\ n % cfg.sample_rate # 0

\* `if let Some(max) = config.max_frames { if results.len() >= max ... break }`
LimitReached(cfg, res) == IsSome(cfg.max_frames) /\ Len(res) >= Unwrap(cfg.max_frames)

collectOthers == << caller, inputVars, scanVars, saVars, gaugeVars >>

\* run_pipeline up to the call of collect_frame_data
run_pipeline_open ==
    /\ pc = "run_enter"
    /\ IF config.sample_rate < 1
       THEN outcome' = "Err" /\ pc' = "done"
       ELSE \E opened \in BOOLEAN :
                IF opened THEN outcome' = outcome /\ pc' = "collect"
                ELSE outcome' = "Err" /\ pc' = "done"
    /\ UNCHANGED << collectOthers, splitVars, frame_count, config, results,
                    last_p1, last_p2, readings, stream, matches >>

\* the loop ends at the max_frames limit
collect_limit ==
    /\ pc = "collect"
    /\ LimitReached(config, results)
    /\ pc' = "segment"
    /\ UNCHANGED << collectOthers, splitVars, collectVars >>

\* decoder.next_frame() returns Ok(None): the stream has ended
collect_stream_end ==
    /\ pc = "collect"
    /\ ~LimitReached(config, results)
    /\ stream' = "ended"
    /\ pc' = "segment"
    /\ UNCHANGED << collectOthers, splitVars, frame_count, config, results,
                    last_p1, last_p2, readings, matches, outcome >>

\* decoder.next_frame() returns Err, the pipe having ended part-way through a
\* frame or a read having failed: the `?` leaves collect_frame_data and
\* run_pipeline with the error
collect_decode_error ==
    /\ pc = "collect"
    /\ ~LimitReached(config, results)
    /\ stream' \in {"mid_frame", "read_error"}
    /\ outcome' = "Err"
    /\ pc' = "done"
    /\ UNCHANGED << collectOthers, splitVars, frame_count, config, results,
                    last_p1, last_p2, readings, matches >>

\* decoder.next_frame() returns a frame; one pass of the loop body
collect_frame ==
    /\ pc = "collect"
    /\ ~LimitReached(config, results)
    /\ frame_count < MaxDecoded
    /\ frame_count' = frame_count + 1
    /\ IF FilteredOut(config, frame_count)
       THEN UNCHANGED << results, last_p1, last_p2, readings >>
       ELSE \E hp1, hp2 \in HpReadings :
              LET st == ProcessFrame([results |-> results, last_p1 |-> last_p1,
                                      last_p2 |-> last_p2], frame_count, hp1, hp2)
              IN  /\ results' = st.results
                  /\ last_p1' = st.last_p1
                  /\ last_p2' = st.last_p2
                  /\ readings' = Append(readings,
                        [frame_number |-> frame_count, hp1 |-> hp1, hp2 |-> hp2,
                         out |-> IF Len(st.results) > Len(results)
                                 THEN Some(st.results[Len(st.results)])
                                 ELSE None])
    /\ UNCHANGED << collectOthers, splitVars, pc, config, stream, matches, outcome >>

\* segment_into_match on the collected frames, and run_pipeline's Ok
run_pipeline_segment ==
    /\ pc = "segment"
    /\ frames' = results
    /\ rounds' = split_into_rounds(results)
    /\ match' = Some(segment_into_match(results))
    /\ matches' = << Unwrap(match') >>
    /\ outcome' = "Ok"
    /\ pc' = "done"
    /\ UNCHANGED << collectOthers, frame_count, config, results, last_p1,
                    last_p2, readings, stream >>

(***************************************************************************)
(* SpecCollect: run_pipeline on every stream of the bounds.                *)
(***************************************************************************)
InitCollect ==
    /\ pc = "run_enter"
    /\ caller = "run"
    /\ config \in Configs
    /\ frame_count = 0
    /\ results = << >>
    /\ last_p1 = None
    /\ last_p2 = None
    /\ readings = << >>
    /\ stream = "open"
    /\ matches = << >>
    /\ outcome = "Pending"
    /\ image = NoImage
    /\ classifier = << >>
    /\ scanline = NoScanline
    /\ IdleScan /\ IdleSa /\ IdleSplit /\ IdleGauge

NextCollect ==
    \/ run_pipeline_open
    \/ collect_limit
    \/ collect_stream_end
    \/ collect_decode_error
    \/ collect_frame
    \/ run_pipeline_segment

SpecCollect == InitCollect /\ [][NextCollect]_vars

(***************************************************************************)
(* Properties of collect_frame_data (SpecCollect).                         *)
(***************************************************************************)
\* the records of the sampled frames that were emitted, in order
RECURSIVE EmittedUpTo(_)
EmittedUpTo(q) ==
    IF q = 0 THEN << >>
    ELSE EmittedUpTo(q - 1) \o readings[q].out

\* the reading of a side at sampled frame q
HpOf(side, q) == IF side = 1 THEN readings[q].hp1 ELSE readings[q].hp2
\* the value of a side in a record
ValueOf(side, fd) == IF side = 1 THEN fd.p1 ELSE fd.p2
\* the sampled frames before q at which the side was readable
ReadableBefore(side, q) == {m \in 1 .. q - 1 : IsSome(HpOf(side, m))}
SetMax(S) == CHOOSE m \in S : \A n \in S : n <= m

\* C4: every record emitted by collect_frame_data carries a health value for
\* both players, and each side's value is that frame's own reading when it is
\* readable, otherwise the most recent readable reading of that side among
\* all earlier sampled frames.
C4_LastValueCarriedForward ==
    /\ results = EmittedUpTo(Len(readings))
    /\ \A q \in 1 .. Len(readings) :
          IsSome(readings[q].out) =>
              \A side \in {1, 2} :
                  LET own == HpOf(side, q)
                      val == ValueOf(side, Unwrap(readings[q].out))
                  IN  /\ val \in HpValues
                      /\ IF IsSome(own) THEN val = Unwrap(own)
                         ELSE /\ ReadableBefore(side, q) # {}
                              /\ val = Unwrap(HpOf(side, SetMax(ReadableBefore(side, q))))

\* a record whose two values are both carried forward, from different frames
C4_Witness ==
    \E q \in 3 .. Len(readings) :
        /\ IsSome(readings[q].out)
        /\ readings[q].hp1 = None /\ readings[q].hp2 = None
        /\ SetMax(ReadableBefore(1, q)) # SetMax(ReadableBefore(2, q))
        /\ Unwrap(readings[q].out).p1 # Unwrap(readings[q].out).p2

\* sampled frame q was skipped
Skipped(q) == readings[q].out = None
\* both sides were readable in sampled frame q
BothReadable(q) == IsSome(readings[q].hp1) /\ IsSome(readings[q].hp2)

BothReadableFrames == {q \in 1 .. Len(readings) : BothReadable(q)}
SetMin(S) == CHOOSE q \in S : \A n \in S : q <= n

\* C29: in collect_frame_data the first emitted record belongs to the first
\* sampled frame in which both players' health is readable in that same
\* frame (readings of skipped frames are not remembered); after the first
\* emitted record no sampled frame is skipped, so the output then has exactly
\* one record per sampled frame, in decode order with strictly increasing
\* frame numbers.
C29_OneRecordPerFrameAfterFirst ==
    /\ (results = << >>) <=> (BothReadableFrames = {})
    /\ BothReadableFrames # {} =>
          LET first == SetMin(BothReadableFrames)
          IN  /\ results[1].frame_number = readings[first].frame_number
              /\ \A q \in 1 .. first - 1 : Skipped(q)
              /\ Len(results) = Len(readings) - first + 1
              /\ \A k \in 1 .. Len(results) :
                    /\ ~Skipped(first + k - 1)
                    /\ results[k].frame_number = readings[first + k - 1].frame_number
    /\ \A q \in 1 .. Len(readings) - 1 :
          readings[q].frame_number < readings[q + 1].frame_number
    /\ \A k \in 1 .. Len(results) - 1 :
          results[k].frame_number < results[k + 1].frame_number

\* two frames with one side readable each are skipped, the third frame has
\* both sides readable and gives the first record, the unreadable fourth frame
\* gives the second
C29_Witness ==
    /\ Len(readings) = 4 /\ Len(results) = 2
    /\ readings[1].hp1 = Some(30) /\ readings[1].hp2 = None
    /\ readings[2].hp1 = None /\ readings[2].hp2 = Some(30)
    /\ BothReadable(3)
    /\ readings[4].hp1 = None /\ readings[4].hp2 = None
    /\ results[1].frame_number = readings[3].frame_number
    /\ results[2].frame_number = readings[4].frame_number

\* run_pipeline has returned Ok
RunReturnedOk == pc = "done" /\ caller = "run" /\ outcome = "Ok"

\* C16: when PipelineConfig.max_frames is set, run_pipeline collects up to that
\* many frames and returns an empty Vec of matches; only when max_frames is not
\* set does it return the detected matches.
C16_MaxFramesReturnsEmpty ==
    RunReturnedOk =>
        /\ IsSome(config.max_frames) =>
              (Len(results) <= Unwrap(config.max_frames) /\ matches = << >>)
        /\ config.max_frames = None => Len(matches) = 1

\* run_pipeline's Vec holds one Match whose rounds are the collected frames
EmitsCollected == Len(matches) = 1 /\ ConcatFrames(matches[1].rounds) = results

\* C17 as stated: when the decoder stops yielding frames after k frames have
\* been collected, by a clean end of stream or by the stream ending part-way
\* through the next frame, run_pipeline still segments those k frames and
\* emits the Match.
C17_StopKeepsRoundState ==
    (pc = "done" /\ caller = "run" /\ stream \in {"ended", "mid_frame"})
        => (outcome = "Ok" /\ EmitsCollected)

\* C17 amended: after a clean end of stream run_pipeline segments the frames
\* collected so far and emits the Match, the last round as it stands; a stream
\* that ends part-way through a frame makes run_pipeline return the error and
\* no Match.
C17_CleanEndKeepsRoundState ==
    (pc = "done" /\ caller = "run") =>
        /\ stream = "ended" => (outcome = "Ok" /\ EmitsCollected)
        /\ stream = "mid_frame" => (outcome = "Err" /\ matches = << >>)

\* the stream ends cleanly one frame into the second round
C17_Witness ==
    /\ pc = "done" /\ caller = "run"
    /\ stream = "ended"
    /\ Len(results) >= 3
    /\ Len(matches) = 1
    /\ Len(matches[1].rounds) = 2
    /\ Len(matches[1].rounds[2].frames) = 1

(***************************************************************************)
(* Special-gauge reader (analysis/huds/manemon/sa.rs).                     *)
(***************************************************************************)
\* is_ca_text_pixel
is_ca_text_pixel(rgb) ==
    LET hsv == rgb_to_hsv(rgb)
    IN  hsv.h >= 25000 /\ hsv.h <= 50000 /\ hsv.s >= 500 /\ hsv.v >= 600

\* is_digit_fill_pixel
is_digit_fill_pixel(hsv) ==
    hsv.h >= 200000 /\ hsv.h <= 230000 /\ hsv.s >= 700 /\ hsv.v >= 700

\* is_digit_outline_pixel
is_digit_outline_pixel(hsv) ==
    hsv.h >= 55000 /\ hsv.h <= 75000 /\ hsv.s >= 250 /\ hsv.v >= 750

\* is_gauge_empty
is_gauge_empty(hsv) ==
    hsv.h > 215000 /\ hsv.h < 222000 /\ hsv.s > 950 /\ hsv.v >= 600

\* is_gauge_sa
is_gauge_sa(hsv) ==
    LET p1_pink == hsv.h >= 320000
        p2_cyan == hsv.h >= 175000 /\ hsv.h <= 210000
    IN  (p1_pink \/ p2_cyan) /\ hsv.s >= 150 /\ hsv.v >= 800

\* classify_sa_pixel
classify_sa_pixel(rgb) ==
    LET hsv == rgb_to_hsv(rgb)
    IN  IF is_gauge_sa(hsv) THEN "Foreground"
        ELSE IF is_gauge_empty(hsv) THEN "Background"
        ELSE "Unknown"

\* i32::clamp
Clamp(v, lo, hi) == Min2(Max2(v, lo), hi)

\* is_sa_digit_foreground: the majority vote of the 3x3 neighbourhood
is_sa_digit_foreground(img, cx, cy) ==
    LET votes == {d \in (-1 .. 1) \X (-1 .. 1) :
                    LET x == Clamp(cx + d[1], 0, img.width - 1)
                        y == Clamp(cy + d[2], 0, img.height - 1)
                        hsv == rgb_to_hsv(img.px[<< x, y >>])
                    IN  is_digit_fill_pixel(hsv) \/ is_digit_outline_pixel(hsv)}
        total == 9
    IN  Cardinality(votes) > total \div 2

\* the last probe that is on decides the digit
classify_sa_digit_LastOn(img, pr) ==
    LET ca_count == Cardinality({k \in 1 .. Len(pr) : is_ca_text_pixel(img.px[pr[k]])})
        on == {k \in 1 .. Len(pr) : is_sa_digit_foreground(img, pr[k][1], pr[k][2])}
    IN  IF ca_count >= 2 THEN Some(3)
        ELSE IF on = {} THEN None
        ELSE Some((CHOOSE k \in on : \A j \in on : j <= k) - 1)

\* classify_sa_digit
classify_sa_digit(img, pr) ==
    LET ca_count == Cardinality({k \in 1 .. Len(pr) : is_ca_text_pixel(img.px[pr[k]])})
        on == {k \in 1 .. Len(pr) : is_sa_digit_foreground(img, pr[k][1], pr[k][2])}
    IN  IF ca_count >= 2 THEN Some(3)
        ELSE IF on = {} THEN None
        ELSE Some((CHOOSE k \in on : \A m \in on : k <= m) - 1)

\* AtMaxStock with the comparison off by one
AtMaxStock_OffByOne(st) == st > 3

\* `if stock >= 3`
AtMaxStock(st) == st >= 3

\* the first half of read_sa_value: the digit, then either the result or the
\* call of find_bar_boundary(image, sa_scan, classify_sa_pixel)
read_sa_value_digit ==
    /\ pc = "sa_enter"
    /\ stock' = classify_sa_digit(image, probes)
    /\ IF stock' = None THEN sa_value' = RetNone /\ pc' = "done"
       ELSE IF Unwrap(stock') > 3 THEN sa_value' = RetPanic /\ pc' = "done"
       ELSE IF AtMaxStock(Unwrap(stock'))
            THEN sa_value' = RetSome(Frac(3, 1)) /\ pc' = "done"
       ELSE sa_value' = sa_value /\ pc' = "fbb_enter"
    /\ UNCHANGED << caller, inputVars, scanVars, splitVars, collectVars, gaugeVars >>

\* the second half of read_sa_value: find_bar_boundary has returned
read_sa_value_fill ==
    /\ pc = "sa_ret"
    /\ sa_value' = IF bar_fill.kind = "None" THEN RetNone
                   ELSE IF ~LeOne(bar_fill.val) THEN RetPanic
                   ELSE RetSome(AddInt(Unwrap(stock), bar_fill.val))
    /\ pc' = "done"
    /\ UNCHANGED << caller, inputVars, scanVars, stock, splitVars, collectVars,
                    gaugeVars >>

(***************************************************************************)
(* SpecSa: read_sa_value on small images.  Rows 0 and 1 hold the stock     *)
(* digit, four probes side by side on row 0; row 2 holds the gauge bar.    *)
(***************************************************************************)
NumProbes == 4
DigitColours == {GOLD, BLUE, YELLOW, DARK}
BarColours == {PINK, EMPTY, DARK}
SaW == ImgW + 1
SaBarY == 2

\* the image with digit columns `digit` (columns past the probes are DARK)
\* and bar pixels `bar`
SaImage(digit, bar) ==
    [width |-> SaW, height |-> SaBarY + 1,
     px |-> [p \in (0 .. SaW - 1) \X (0 .. SaBarY) |->
                IF p[2] = SaBarY THEN bar[p[1]]
                ELSE IF p[1] < NumProbes THEN digit[p[1]] ELSE DARK]]

InitSa ==
    /\ pc = "sa_enter"
    /\ caller = "sa"
    /\ image \in {SaImage(digit, bar) :
                    digit \in [0 .. NumProbes - 1 -> DigitColours],
                    bar \in [0 .. SaW - 1 -> BarColours]}
    /\ probes = [k \in 1 .. NumProbes |-> << k - 1, 0 >>]
    /\ classifier = [c \in BarColours |-> classify_sa_pixel(c)]
    /\ scanline \in {[x_start |-> 0, x_end |-> SaW - 1, y |-> SaBarY],
                     [x_start |-> SaW - 1, x_end |-> 0, y |-> SaBarY]}
    /\ stock = None
    /\ sa_value = Pending
    /\ IdleScan /\ IdleSplit /\ IdleCollect /\ IdleGauge

NextSa ==
    \/ read_sa_value_digit
    \/ find_bar_boundary_enter
    \/ find_bar_boundary_pixel
    \/ find_bar_boundary_end
    \/ read_sa_value_fill

SpecSa == InitSa /\ [][NextSa]_vars

(***************************************************************************)
(* Properties of read_sa_value (SpecSa).                                   *)
(***************************************************************************)
SaDone == pc = "done" /\ caller = "sa"

\* C9: whenever the recognised stock digit is s < 3 and read_sa_value returns
\* Some(v), s <= v < s + 1.
C9_FillBelowNextStock ==
    (SaDone /\ IsSome(stock) /\ sa_value.kind = "Some") =>
        (Unwrap(stock) < 3 =>
            /\ sa_value.val.den > 0
            /\ Unwrap(stock) * sa_value.val.den <= sa_value.val.num
            /\ sa_value.val.num < (Unwrap(stock) + 1) * sa_value.val.den)

\* C10: when the recognised stock is 3, read_sa_value returns exactly
\* Some(3.0) and find_bar_boundary is never entered: no pixel of the bar is
\* read.
C10_MaxStockSkipsBar ==
    (caller = "sa" /\ stock = Some(3)) =>
        /\ pc = "done"
        /\ sa_value = RetSome(Frac(3, 1))
        /\ sampled = << >>
        /\ bar_fill = Pending

\* stock 3 by the digit probe, and by the "CA" overlay, over a bar that is
\* not empty
C10_Witness ==
    /\ SaDone
    /\ stock = Some(3)
    /\ \E x \in 0 .. SaW - 1 : image.px[<< x, SaBarY >>] = PINK
    /\ \E x \in 0 .. SaW - 1 : image.px[<< x, SaBarY >>] = EMPTY

(***************************************************************************)
(* Drive-gauge reader (analysis/huds/manemon/od.rs).  The coordinates of   *)
(* the fixed geometry lie inside the frame, so no get_pixel fails.         *)
(***************************************************************************)
\* near-white border of a full segment; the recovered part of a burnt-out gauge
WHITE == << 250, 250, 250 >>
\* light-green interior of a full segment
GREEN == << 120, 240, 20 >>
\* orange edge of the fill inside a partial segment
ORANGE == << 255, 200, 80 >>
\* background of a partial segment past the fill
SLATE == << 80, 80, 130 >>
\* an effect of middle brightness
GREY == << 150, 150, 150 >>

OD_SEG_CEIL_OFFSET_Y == 8
OD_SEG_FLOOR_OFFSET_Y == 7
OD_GAP_WIDTH == 3
\* width of a segment in the model (OD_SEG_WIDTH is 52 at 1920x1080)
OdSegW == 4
\* number of segments of the gauge: `for i in 0..6`
OdSegments == 6

\* Scanline::x_at
x_at(s, k) == SampleX(s, k)
\* Scanline::first_pos
first_pos(s) == << s.x_start, s.y >>
\* Scanline::last_pos
last_pos(s) == << x_at(s, ScanWidth(s) - 1), s.y >>

\* OdSegmentState
OdFull == [kind |-> "Full", ratio |-> Frac(0, 1)]
OdEmpty == [kind |-> "Empty", ratio |-> Frac(0, 1)]
OdPartial(r) == [kind |-> "Partial", ratio |-> r]
OdUnknown == [kind |-> "Unknown", ratio |-> Frac(0, 1)]

\* OdValue
Normal(f) == [variant |-> "Normal", val |-> f]
Burnout(f) == [variant |-> "Burnout", val |-> f]

is_od_segment_full_border(rgb) ==
    LET hsv == rgb_to_hsv(rgb)
    IN  hsv.s < 250 /\ hsv.v > 900

is_od_segment_full_background(rgb) ==
    LET hsv == rgb_to_hsv(rgb)
    IN  \/ hsv.h >= 72000 /\ hsv.h <= 105000 /\ hsv.s >= 800 /\ hsv.v >= 850
        \/ hsv.h >= 25000 /\ hsv.h <= 35000 /\ hsv.s >= 950 /\ hsv.v >= 950

is_partial_fill_border_orange(hsv) ==
    hsv.h >= 30000 /\ hsv.h <= 60000 /\ hsv.s >= 200 /\ hsv.v >= 800

is_partial_background_green(hsv) ==
    hsv.h > 110000 /\ hsv.h < 195000 /\ hsv.s > 950 /\ hsv.v > 300 /\ hsv.v < 450

is_partial_fill_border_green(hsv) ==
    hsv.h > 95000 /\ hsv.h < 130000 /\ hsv.s > 500 /\ hsv.v > 800

is_partial_background_orange(hsv) ==
    \/ /\ hsv.h > 210000 /\ hsv.h < 320000
       /\ hsv.s > 150 /\ hsv.s < 650
       /\ hsv.v > 300 /\ hsv.v < 600
    \/ hsv.h > 30000 /\ hsv.h < 60000 /\ hsv.s > 300 /\ hsv.v > 300 /\ hsv.v < 550

is_partial_background(hsv) ==
    is_partial_background_orange(hsv) \/ is_partial_background_green(hsv)

is_partial_fill_border(hsv) ==
    is_partial_fill_border_green(hsv) \/ is_partial_fill_border_orange(hsv)

\* the dark blue of an empty segment, tested inline by is_segment_empty_fast
IsEmptyBlue(hsv) ==
    hsv.h > 210000 /\ hsv.h < 230000 /\ hsv.s > 900 /\ hsv.v > 600

\* x of the segment's horizontal centre: `(first.0 + last.0) / 2`
CenterX(seg) == (first_pos(seg)[1] + last_pos(seg)[1]) \div 2

is_segment_full_fast(img, seg) ==
    LET ceil_y == seg.y - OD_SEG_CEIL_OFFSET_Y
        floor_y == seg.y + OD_SEG_FLOOR_OFFSET_Y
        center_x == CenterX(seg)
        border_positions == << first_pos(seg), last_pos(seg),
                               << center_x, ceil_y >>, << center_x, floor_y >> >>
        white_count == Cardinality({k \in 1 .. 4 :
                           is_od_segment_full_border(img.px[border_positions[k]])})
    IN  IF white_count < 3 THEN FALSE
        ELSE is_od_segment_full_background(img.px[<< center_x, seg.y >>])

\* the loop returns true at the fourth position that passes the three tests
is_segment_full(img, seg) ==
    LET ceil_y == seg.y - OD_SEG_CEIL_OFFSET_Y
        floor_y == seg.y + OD_SEG_FLOOR_OFFSET_Y
        full == {k \in 0 .. ScanWidth(seg) - 1 :
                    LET x == x_at(seg, k)
                    IN  /\ is_od_segment_full_border(img.px[<< x, ceil_y >>])
                        /\ is_od_segment_full_border(img.px[<< x, floor_y >>])
                        /\ is_od_segment_full_background(img.px[<< x, seg.y >>])}
    IN  Cardinality(full) >= 4

is_segment_empty_fast(img, seg) ==
    LET ceil_y == seg.y - OD_SEG_CEIL_OFFSET_Y
        floor_y == seg.y + OD_SEG_FLOOR_OFFSET_Y
        center_x == CenterX(seg)
        border_positions == << first_pos(seg), last_pos(seg),
                               << center_x, ceil_y >>, << center_x, floor_y >>,
                               << center_x, seg.y >> >>
        blue_count == Cardinality({k \in 1 .. 5 :
                          IsEmptyBlue(rgb_to_hsv(img.px[border_positions[k]]))})
    IN  blue_count >= 4

\* the test of read_maybe_partial_segment at loop index k
PartialEdgeAt(img, seg, k) ==
    LET x == x_at(seg, k)
    IN  /\ is_partial_fill_border(rgb_to_hsv(img.px[<< x, seg.y >>]))
        /\ is_partial_fill_border(rgb_to_hsv(img.px[<< x, seg.y - 1 >>]))
        /\ is_partial_fill_border(rgb_to_hsv(img.px[<< x, seg.y + 1 >>]))
        /\ is_partial_background(rgb_to_hsv(img.px[<< x_at(seg, k + 1), seg.y >>]))

read_maybe_partial_segment(img, seg) ==
    LET found == {k \in 0 .. ScanWidth(seg) - 1 : PartialEdgeAt(img, seg, k)}
    IN  IF found = {} THEN None
        ELSE Some(Frac(CHOOSE k \in found : \A j \in found : k <= j, ScanWidth(seg)))

\* classify_od_segment with the exhaustive full check tried before the fast
\* empty check
classify_od_segment_FullBeforeEmpty(img, seg) ==
    IF is_segment_full_fast(img, seg) THEN OdFull
    ELSE IF is_segment_full(img, seg) THEN OdFull
    ELSE IF is_segment_empty_fast(img, seg) THEN OdEmpty
    ELSE LET r == read_maybe_partial_segment(img, seg)
         IN  IF IsSome(r) THEN OdPartial(Unwrap(r)) ELSE OdUnknown

classify_od_segment(img, seg) ==
    IF is_segment_full_fast(img, seg) THEN OdFull
    ELSE IF is_segment_empty_fast(img, seg) THEN OdEmpty
    ELSE IF is_segment_full(img, seg) THEN OdFull
    ELSE LET r == read_maybe_partial_segment(img, seg)
         IN  IF IsSome(r) THEN OdPartial(Unwrap(r)) ELSE OdUnknown

\* split_scanline_for_segments: the scanline of each of the six segments
split_scanline_for_segments(od_scanline) ==
    [k \in 1 .. OdSegments |->
        LET start == IF ScanDx(od_scanline) = 1
                     THEN od_scanline.x_start + (k - 1) * (OdSegW + OD_GAP_WIDTH)
                     ELSE od_scanline.x_start - (k - 1) * (OdSegW + OD_GAP_WIDTH)
            end == IF ScanDx(od_scanline) = 1 THEN start + OdSegW ELSE start - OdSegW
        IN  [x_start |-> start, x_end |-> end, y |-> od_scanline.y]]

\* the offsets is_burnout samples: width * frac / 6 for frac in 1..5
BurnoutSamples(od_scan) == {(ScanWidth(od_scan) * frac) \div 6 : frac \in 1 .. 5}

\* is_burnout with the test of the saturation turned round
is_burnout_AnyLow(img, od_scan) ==
    \E k \in BurnoutSamples(od_scan) :
        rgb_to_hsv(img.px[<< x_at(od_scan, k), od_scan.y >>]).s <= 500

is_burnout(img, od_scan) ==
    \A k \in BurnoutSamples(od_scan) :
        ~(rgb_to_hsv(img.px[<< x_at(od_scan, k), od_scan.y >>]).s > 500)

is_burnout_recovered(hsv) == hsv.s < 50 /\ hsv.v > 800

is_burnout_unrecovered(hsv) == hsv.s < 150 /\ hsv.v < 500

classify_burnout_pixel(rgb) ==
    LET hsv == rgb_to_hsv(rgb)
    IN  IF is_burnout_recovered(hsv) THEN "Foreground"
        ELSE IF is_burnout_unrecovered(hsv) THEN "Background"
        ELSE "Unknown"

\* a Partial segment counts only directly after a Full one
OdStep_PartialNeedsFull(state, k, last) ==
    IF state.kind = "Empty" /\ last = OdFull THEN RetSome(Normal(Frac(k, 1)))
    ELSE IF state.kind = "Partial" /\ last = OdFull
         THEN RetSome(Normal(AddInt(k, state.ratio)))
    ELSE Continue

\* OdStep that counts the segments from 1
OdStep_OneBased(state, k, last) ==
    IF state.kind = "Empty" /\ last = OdFull THEN RetSome(Normal(Frac(k + 1, 1)))
    ELSE IF state.kind = "Partial" THEN RetSome(Normal(AddInt(k + 1, state.ratio)))
    ELSE Continue

\* the match of read_od_value on the state of segment k: what it returns, or
\* Continue
OdStep(state, k, last) ==
    IF state.kind = "Empty" /\ last = OdFull THEN RetSome(Normal(Frac(k, 1)))
    ELSE IF state.kind = "Partial" THEN RetSome(Normal(AddInt(k, state.ratio)))
    ELSE Continue

\* the code after the loop of read_od_value
OdAfterLoop(last) ==
    IF last = OdFull THEN RetSome(Normal(Frac(6, 1))) ELSE RetNone

\* read_od_value up to the loop: the burnout test, then either the call of
\* find_bar_boundary(image, od_scan, classify_burnout_pixel) in
\* read_burnout_recovery or the loop state
read_od_value_enter ==
    /\ pc = "od_enter"
    /\ IF is_burnout(image, scanline)
       THEN /\ pc' = "fbb_enter"
            /\ UNCHANGED << od_i, last_state >>
       ELSE /\ pc' = "od_loop"
            /\ od_i' = 0
            /\ last_state' = OdFull
    /\ UNCHANGED << caller, inputVars, scanVars, saVars, splitVars, collectVars,
                    od_states, od_value, hudVars >>

\* one iteration of `for i in 0..6`
read_od_value_segment ==
    /\ pc = "od_loop"
    /\ od_i < OdSegments
    /\ od_states' = Append(od_states,
          classify_od_segment(image, split_scanline_for_segments(scanline)[od_i + 1]))
    /\ LET state == od_states'[Len(od_states')]
           r == OdStep(state, od_i, last_state)
       IN  IF r.kind = "Continue"
           THEN /\ last_state' = state
                /\ od_i' = od_i + 1
                /\ UNCHANGED << pc, od_value >>
           ELSE /\ od_value' = r
                /\ pc' = "done"
                /\ UNCHANGED << od_i, last_state >>
    /\ UNCHANGED << caller, inputVars, scanVars, saVars, splitVars, collectVars,
                    hudVars >>

\* the loop ran over all six segments
read_od_value_end ==
    /\ pc = "od_loop"
    /\ od_i >= OdSegments
    /\ od_value' = OdAfterLoop(last_state)
    /\ pc' = "done"
    /\ UNCHANGED << caller, inputVars, scanVars, saVars, splitVars, collectVars,
                    od_i, last_state, od_states, hudVars >>

\* read_burnout_recovery once find_bar_boundary has returned
read_burnout_recovery_ret ==
    /\ pc = "od_ret"
    /\ od_value' = IF bar_fill.kind = "Panic" THEN RetPanic
                   ELSE IF bar_fill.kind = "Some" THEN RetSome(Burnout(bar_fill.val))
                   ELSE RetSome(Burnout(Frac(0, 1)))
    /\ pc' = "done"
    /\ UNCHANGED << caller, inputVars, scanVars, saVars, splitVars, collectVars,
                    od_i, last_state, od_states, hudVars >>

(***************************************************************************)
(* Images of the drive gauge.  A gauge is drawn column by column along its *)
(* scanline; a column gives the colours of the five rows the reader looks  *)
(* at: the ceiling, the row above the scanline, the scanline, the row      *)
(* below, the floor.  px is kept for these rows only.                      *)
(***************************************************************************)
\* row of the gauge scanline: the topmost row that has its ceiling in the frame
OdY == OD_SEG_CEIL_OFFSET_Y
\* width of the gauge scanline: six segments and the five gaps between them
OdGaugeW == OdSegments * OdSegW + (OdSegments - 1) * OD_GAP_WIDTH
\* the rows the drive-gauge reader looks at around scanline row y
OdRows(y) == {y - OD_SEG_CEIL_OFFSET_Y, y - 1, y, y + 1, y + OD_SEG_FLOOR_OFFSET_Y}

Col(ceil, upper, mid, lower, floor) ==
    [ceil |-> ceil, upper |-> upper, mid |-> mid, lower |-> lower, floor |-> floor]
\* a column of a full segment
ColFull == Col(WHITE, GREEN, GREEN, GREEN, WHITE)
\* a column of the white border; of the recovered part of a burnt-out gauge
ColWhite == Col(WHITE, WHITE, WHITE, WHITE, WHITE)
\* a column of an empty segment
ColBlue == Col(EMPTY, EMPTY, EMPTY, EMPTY, EMPTY)
\* a hidden column; a column of the unrecovered part of a burnt-out gauge
ColDark == Col(DARK, DARK, DARK, DARK, DARK)
\* a column under a bright effect
ColGrey == Col(GREY, GREY, GREY, GREY, GREY)
\* the edge of the fill of a partial segment
ColEdge == Col(DARK, ORANGE, ORANGE, ORANGE, DARK)
\* a column past the fill of a partial segment
ColPast == Col(DARK, SLATE, SLATE, SLATE, DARK)
\* a column between two segments, `gap` on the scanline
ColGap(gap) == Col(DARK, DARK, gap, DARK, DARK)

\* the colour of a column at row y, the scanline being row sy
ColAt(col, y, sy) ==
    IF y = sy - OD_SEG_CEIL_OFFSET_Y THEN col.ceil
    ELSE IF y = sy - 1 THEN col.upper
    ELSE IF y = sy THEN col.mid
    ELSE IF y = sy + 1 THEN col.lower
    ELSE col.floor

\* the frame that shows the columns cols[1], cols[2], ... at the offsets
\* 0, 1, ... of scanline s, which spans the frame
StripImage(cols, s) ==
    [width |-> ScanWidth(s) + 1, height |-> s.y + OD_SEG_FLOOR_OFFSET_Y + 1,
     px |-> [p \in (0 .. ScanWidth(s)) \X OdRows(s.y) |->
                ColAt(cols[Abs(p[1] - s.x_start) + 1], p[2], s.y)]]

\* the columns of a segment as it is drawn when full, empty, partial (the
\* fill ending at column 1), hidden, recovered from burnout or under glare
OdTile(kind) ==
    [c \in 0 .. OdSegW - 1 |->
        IF kind = "Full" THEN (IF c = 0 \/ c = OdSegW - 1 THEN ColWhite ELSE ColFull)
        ELSE IF kind = "Empty" THEN ColBlue
        ELSE IF kind = "Partial"
             THEN (IF c = 0 THEN ColWhite ELSE IF c = 1 THEN ColEdge ELSE ColPast)
        ELSE IF kind = "Recovered" THEN ColWhite
        ELSE IF kind = "Glare" THEN ColGrey
        ELSE ColDark]

\* the columns of a gauge of six segments drawn as kinds[1..6], the pixels
\* after segment k having the colour gaps[k] on the scanline
GaugeCols(kinds, gaps) ==
    [o \in 1 .. OdGaugeW + 1 |->
        LET k == (o - 1) \div (OdSegW + OD_GAP_WIDTH)
            c == (o - 1) % (OdSegW + OD_GAP_WIDTH)
        IN  IF c < OdSegW THEN OdTile(kinds[k + 1])[c] ELSE ColGap(gaps[k + 1])]

\* the gauge scanline that runs leftwards (player 1) or rightwards (player 2)
OdGauge(dx) ==
    IF dx = 1 THEN [x_start |-> 0, x_end |-> OdGaugeW, y |-> OdY]
    ELSE [x_start |-> OdGaugeW, x_end |-> 0, y |-> OdY]

OdColours == {WHITE, GREEN, ORANGE, SLATE, EMPTY, DARK, GREY}

\* a gauge in normal mode: each segment full, empty, partial or hidden, the
\* gaps showing the saturated gauge frame
NormalGauges ==
    {GaugeCols(kinds, [k \in 1 .. OdSegments |-> EMPTY]) :
        kinds \in [1 .. OdSegments -> {"Full", "Empty", "Partial", "Hidden"}]}

\* the gaps of a burnt-out gauge: all grey, all dark, or grey with the gap
\* after segment 3 saturated
BurnoutGaps ==
    {[k \in 1 .. OdSegments |-> GREY], [k \in 1 .. OdSegments |-> DARK],
     [k \in 1 .. OdSegments |-> IF k = 3 THEN EMPTY ELSE GREY]}

\* a burnt-out gauge: each segment recovered, unrecovered or under glare
BurnoutGauges ==
    {GaugeCols(kinds, gaps) :
        kinds \in [1 .. OdSegments -> {"Recovered", "Hidden", "Glare"}],
        gaps \in BurnoutGaps}

(***************************************************************************)
(* SpecOd: read_od_value on every gauge drawn.                             *)
(***************************************************************************)
InitOd ==
    /\ pc = "od_enter"
    /\ caller = "od"
    /\ scanline \in {OdGauge(1), OdGauge(-1)}
    /\ image \in {StripImage(cols, scanline) : cols \in NormalGauges \cup BurnoutGauges}
    /\ classifier = [c \in OdColours |-> classify_burnout_pixel(c)]
    /\ IdleScan /\ IdleSa /\ IdleSplit /\ IdleCollect /\ IdleGauge

NextOd ==
    \/ read_od_value_enter
    \/ read_od_value_segment
    \/ read_od_value_end
    \/ find_bar_boundary_enter
    \/ find_bar_boundary_pixel
    \/ find_bar_boundary_end
    \/ read_burnout_recovery_ret

SpecOd == InitOd /\ [][NextOd]_vars

(***************************************************************************)
(* Properties of read_od_value (SpecOd).                                   *)
(***************************************************************************)
OdDone == pc = "done" /\ caller = "od"

\* the five sample points of the gauge scanline, at the offsets width * k / 6,
\* are all of low saturation
AllSamplesLowSaturation ==
    \A k \in 1 .. 5 :
        rgb_to_hsv(image.px[<< x_at(scanline, (ScanWidth(scanline) * k) \div 6),
                               scanline.y >>]).s <= 500

\* the state of segment k (0..5) of the gauge in the frame
SegState(k) == classify_od_segment(image, split_scanline_for_segments(scanline)[k + 1])

\* segments 0..k-1 are Full and segment k is Empty
FullRunThenEmpty(k) ==
    /\ \A j \in 0 .. k - 1 : SegState(j) = OdFull
    /\ SegState(k) = OdEmpty

\* C11: outside burnout, if segments 0..k-1 all classify as Full and segment k
\* classifies as Empty (0 <= k <= 5), read_od_value returns Normal(k),
\* whatever the states of the segments after k.
C11_FullRunThenEmptyIsIndex ==
    (OdDone /\ ~AllSamplesLowSaturation) =>
        \A k \in 0 .. 5 :
            FullRunThenEmpty(k) => od_value = RetSome(Normal(Frac(k, 1)))

\* three Full segments, an Empty one, then a Partial and a Full one
C11_Witness ==
    /\ OdDone /\ ~AllSamplesLowSaturation
    /\ FullRunThenEmpty(3)
    /\ SegState(4).kind = "Partial" /\ SegState(5) = OdFull
    /\ od_value = RetSome(Normal(Frac(3, 1)))
    /\ Len(od_states) = 4

\* C13: when all 5 sample points are low-saturation, read_od_value classifies
\* no segment and returns Some(Burnout(f)) with 0 <= f <= 1: Burnout(fill) when
\* the boundary scan returns Some(fill), Burnout(0.0) when it returns None,
\* never None or a Normal value; and when some sample point is saturated it
\* does not return a Burnout value (and runs no boundary scan).
C13_BurnoutNeverUnreadable ==
    OdDone =>
        IF AllSamplesLowSaturation
        THEN /\ od_states = << >>
             /\ od_value.kind = "Some"
             /\ od_value.val.variant = "Burnout"
             /\ GeZero(od_value.val.val) /\ LeOne(od_value.val.val)
             /\ bar_fill.kind \in {"Some", "None"}
             /\ bar_fill.kind = "Some" => od_value.val.val = bar_fill.val
             /\ bar_fill.kind = "None" => IsZero(od_value.val.val)
        ELSE /\ ~(od_value.kind = "Some" /\ od_value.val.variant = "Burnout")
             /\ bar_fill = Pending

\* a burnt-out gauge hidden from its start up to the first unrecovered pixel:
\* the scan returns None
C13_Witness ==
    /\ OdDone /\ AllSamplesLowSaturation
    /\ bar_fill.kind = "None"
    /\ Len(sampled) > OdSegW
    /\ od_value = RetSome(Burnout(Frac(0, 1)))

\* no segment is Partial, and no Empty segment comes first or directly after
\* a Full one
NoTerminalState ==
    \A k \in 0 .. 5 :
        /\ SegState(k).kind # "Partial"
        /\ ~FullRunThenEmpty(k)
        /\ (k > 0 /\ SegState(k) = OdEmpty) => SegState(k - 1) # OdFull
AllSixFull == \A k \in 0 .. 5 : SegState(k) = OdFull

\* C20: outside burnout, read_od_value returns Normal(6.0) only when all six
\* segments classify as Full; every sequence with no Partial segment, no Empty
\* segment directly preceded by a Full one (or Empty at index 0), and that is
\* not six Full segments yields None.
C20_SixOnlyWhenAllFull ==
    (OdDone /\ ~AllSamplesLowSaturation) =>
        /\ od_value = RetSome(Normal(Frac(6, 1))) => AllSixFull
        /\ (NoTerminalState /\ ~AllSixFull) => od_value = RetNone

(***************************************************************************)
(* SpecOdSeg: classify_od_segment on one segment, drawn with a column kind *)
(* for its first pixel, its last pixel, its centre and the rest, and with  *)
(* or without the edge of a partial fill.                                  *)
(***************************************************************************)
\* width of the segment scanline classify_od_segment is tried on alone
SegScanW == 7

\* the segment scanline, running rightwards or leftwards
SegScan(dx) ==
    IF dx = 1 THEN [x_start |-> 0, x_end |-> SegScanW, y |-> OdY]
    ELSE [x_start |-> SegScanW, x_end |-> 0, y |-> OdY]

\* the columns at the offsets 0..width of segment scanline s; edge is the
\* offset of the edge of the fill, -1 when there is none
SegCols(first, last, centre, body, edge, s) ==
    [o \in 1 .. ScanWidth(s) + 1 |->
        LET c == o - 1
        IN  IF edge >= 0 /\ c = edge THEN ColEdge
            ELSE IF edge >= 0 /\ c = edge + 1 THEN ColPast
            ELSE IF c = 0 THEN first
            ELSE IF c = ScanWidth(s) - 1 THEN last
            ELSE IF c = Abs(CenterX(s) - s.x_start) THEN centre
            ELSE IF c = ScanWidth(s) THEN ColGap(EMPTY)
            ELSE body]

ColKinds == {ColFull, ColWhite, ColBlue, ColDark}

InitOdSeg ==
    /\ pc = "seg_enter"
    /\ caller = "seg"
    /\ scanline \in {SegScan(1), SegScan(-1)}
    /\ image \in {StripImage(SegCols(first, last, centre, body, edge, scanline), scanline) :
                    first \in ColKinds, last \in ColKinds, centre \in ColKinds,
                    body \in ColKinds, edge \in -1 .. SegScanW - 1}
    /\ classifier = << >>
    /\ IdleScan /\ IdleSa /\ IdleSplit /\ IdleCollect /\ IdleGauge

\* a call of classify_od_segment(image, seg_scan)
classify_od_segment_call ==
    /\ pc = "seg_enter"
    /\ od_states' = << classify_od_segment(image, scanline) >>
    /\ pc' = "done"
    /\ UNCHANGED << caller, inputVars, scanVars, saVars, splitVars, collectVars,
                    od_i, last_state, od_value, hudVars >>

NextOdSeg == classify_od_segment_call

SpecOdSeg == InitOdSeg /\ [][NextOdSeg]_vars

(***************************************************************************)
(* Properties of classify_od_segment (SpecOdSeg).                          *)
(***************************************************************************)
SegDone == pc = "done" /\ caller = "seg"

\* C12: classify_od_segment applies its heuristics in a fixed priority order
\* and stops at the first that matches: Full if the fast-full check passes;
\* otherwise Empty if the fast-empty check passes; otherwise Full if the slow
\* full check passes; otherwise Partial(ratio) if the partial-fill search
\* finds a position; otherwise Unknown.  Unknown is returned if and only if
\* none of the four heuristics matches.
C12_HeuristicsInPriorityOrder ==
    SegDone =>
        LET state == od_states[1]
            fast_full == is_segment_full_fast(image, scanline)
            fast_empty == is_segment_empty_fast(image, scanline)
            slow_full == is_segment_full(image, scanline)
            partial == read_maybe_partial_segment(image, scanline)
        IN  /\ fast_full => state = OdFull
            /\ (~fast_full /\ fast_empty) => state = OdEmpty
            /\ (~fast_full /\ ~fast_empty /\ slow_full) => state = OdFull
            /\ (~fast_full /\ ~fast_empty /\ ~slow_full /\ IsSome(partial))
                  => state = OdPartial(Unwrap(partial))
            /\ state = OdUnknown
                  <=> (~fast_full /\ ~fast_empty /\ ~slow_full /\ partial = None)

\* a segment that passes the fast-empty check, the slow full check and the
\* partial-fill search, and is Empty
C12_Witness ==
    /\ SegDone
    /\ ~is_segment_full_fast(image, scanline)
    /\ is_segment_empty_fast(image, scanline)
    /\ is_segment_full(image, scanline)
    /\ IsSome(read_maybe_partial_segment(image, scanline))
    /\ od_states = << OdEmpty >>

(***************************************************************************)
(* SpecHud: ManemonHud::detect_hud on frames whose SA-frame row is drawn   *)
(* from the two frame colours and from colours that miss them.  Frames     *)
(* have the size ManemonHud::new insists on, so SA_FRAME lies inside them. *)
(***************************************************************************)
\* width of the SA-frame scanline
SaFrameW == 3

SA_FRAME == [x_start |-> 0, x_end |-> SaFrameW, y |-> 0]

\* the frame of the SA gauge while SA is charging, and while CA is ready
SAFRAME == << 5, 80, 250 >>

CAFRAME == << 5, 170, 250 >>

is_ca_frame(hsv) ==
    hsv.h > 190000 /\ hsv.h < 210000 /\ hsv.s > 900 /\ hsv.v > 900

is_sa_frame(hsv) ==
    hsv.h > 210000 /\ hsv.h < 230000 /\ hsv.s > 900 /\ hsv.v > 900

\* the test of one sample reads the SA frame colour only
HudSampleFails_SaOnly(img, k) ==
    ~is_sa_frame(rgb_to_hsv(img.px[<< x_at(SA_FRAME, k), SA_FRAME.y >>]))

\* the sample at scan offset k is neither frame colour
HudSampleFails(img, k) ==
    LET hsv == rgb_to_hsv(img.px[<< x_at(SA_FRAME, k), SA_FRAME.y >>])
    IN  ~is_sa_frame(hsv) /\ ~is_ca_frame(hsv)

HudColours == {SAFRAME, CAFRAME, BLUE, EMPTY, DARK}

InitHud ==
    /\ pc = "hud_loop"
    /\ caller = "hud"
    /\ scanline = SA_FRAME
    /\ image \in {RowImage(SaFrameW + 1, 1, row) : row \in [0 .. SaFrameW -> HudColours]}
    /\ classifier = << >>
    /\ IdleScan /\ IdleSa /\ IdleSplit /\ IdleCollect /\ IdleGauge

\* one iteration of `for i in 0..SA_FRAME.width()`
detect_hud_pixel ==
    /\ pc = "hud_loop"
    /\ hud_i < ScanWidth(SA_FRAME)
    /\ IF HudSampleFails(image, hud_i)
       THEN /\ detected' = RetSome(FALSE)
            /\ pc' = "done"
            /\ UNCHANGED hud_i
       ELSE /\ hud_i' = hud_i + 1
            /\ UNCHANGED << pc, detected >>
    /\ UNCHANGED << caller, inputVars, scanVars, saVars, splitVars, collectVars,
                    od_i, last_state, od_states, od_value, hp_reading >>

\* the loop ran over every sample
detect_hud_end ==
    /\ pc = "hud_loop"
    /\ hud_i = ScanWidth(SA_FRAME)
    /\ detected' = RetSome(TRUE)
    /\ pc' = "done"
    /\ UNCHANGED << caller, inputVars, scanVars, saVars, splitVars, collectVars,
                    od_i, last_state, od_states, od_value, hud_i, hp_reading >>

NextHud ==
    \/ detect_hud_pixel
    \/ detect_hud_end

SpecHud == InitHud /\ [][NextHud]_vars

(***************************************************************************)
(* Properties of detect_hud (SpecHud).                                     *)
(***************************************************************************)
HudDone == pc = "done" /\ caller = "hud"

\* the pixel at scan offset k of the SA-frame scanline has the SA frame
\* colour or the CA frame colour
IsFrameColourAt(k) ==
    LET hsv == rgb_to_hsv(image.px[<< SA_FRAME.x_start + k, SA_FRAME.y >>])
    IN  is_sa_frame(hsv) \/ is_ca_frame(hsv)

\* C15: detect_hud returns true if and only if every sampled pixel along the
\* SA-frame scanline (scan offsets 0..width-1) matches the SA frame colour or
\* the CA frame colour; one sample that matches neither makes it return
\* false, and a frame without any HUD gives false, never an error.
C15_DetectedIffEverySampleMatches ==
    HudDone =>
        /\ detected \in {RetSome(TRUE), RetSome(FALSE)}
        /\ detected = RetSome(TRUE)
              <=> \A k \in 0 .. ScanWidth(SA_FRAME) - 1 : IsFrameColourAt(k)

\* every sample but the last has a frame colour, CA among them, and the
\* answer is false
C15_Witness ==
    /\ HudDone
    /\ detected = RetSome(FALSE)
    /\ \A k \in 0 .. ScanWidth(SA_FRAME) - 2 : IsFrameColourAt(k)
    /\ \E k \in 0 .. ScanWidth(SA_FRAME) - 2 :
          image.px[<< SA_FRAME.x_start + k, SA_FRAME.y >>] = CAFRAME
    /\ ~IsFrameColourAt(ScanWidth(SA_FRAME) - 1)

(***************************************************************************)
(* The health reader: the border scan of manemon/hp.rs (find_border,       *)
(* analyze_hp) and the generic strategy of manemon.rs, which hands         *)
(* classify_hp_pixel to find_bar_boundary.                                 *)
(***************************************************************************)
\* HP fill at normal health, HP fill at low health, the orange-tinted border,
\* the depleted bar, the bar's frame, a damage flash, provisional damage
HPYELLOW == << 255, 235, 120 >>

HPORANGE == << 255, 180, 20 >>

HPBORDER == << 255, 200, 60 >>

HPBG == << 5, 95, 250 >>

HPFRAME == << 5, 60, 250 >>

HPDAMAGE == << 255, 95, 10 >>

HPPROV == << 200, 200, 200 >>

is_hp_bar_frame(hsv) ==
    \/ hsv.h > 210000 /\ hsv.h < 230000 /\ hsv.s > 800 /\ hsv.v > 750
    \/ /\ hsv.h > 210000 /\ hsv.h < 230000
       /\ hsv.s > 400 /\ hsv.s < 700 /\ hsv.v > 400 /\ hsv.v < 700

is_hp_yellow(hsv) ==
    hsv.h >= 48000 /\ hsv.h <= 66000 /\ hsv.s >= 300 /\ hsv.v >= 900

is_hp_orange(hsv) ==
    hsv.h >= 38000 /\ hsv.h <= 50000 /\ hsv.s >= 850 /\ hsv.v >= 900

is_hp_border_white(hsv) == hsv.s < 250 /\ hsv.v > 900

is_hp_border_orange(hsv) ==
    hsv.h > 40000 /\ hsv.h < 65000 /\ hsv.s > 700 /\ hsv.s < 850 /\ hsv.v > 900

is_provisional_damage(hsv) == hsv.s < 100 /\ hsv.v >= 600 /\ hsv.v <= 900

is_hp_background(hsv) == hsv.h > 215000 /\ hsv.h < 222000 /\ hsv.s > 950

is_damage(hsv) ==
    hsv.h >= 17000 /\ hsv.h <= 25000 /\ hsv.s >= 900 /\ hsv.v >= 900

\* find_border's counters before the loop
FindBorderStart ==
    [yellow_count |-> 0, orange_count |-> 0, background_count |-> 0,
     first_background_i |-> -1, border_count |-> 0, border_i |-> 0]

\* two background-coloured pixels of the five are taken as enough
FindBorderFullyDepleted_TwoSuffice(img, s, st) ==
    IF st.background_count > 10 /\ st.first_background_i < 4
    THEN LET x == x_at(s, st.first_background_i)
             bg_count == Cardinality({y \in s.y - 2 .. s.y + 2 :
                             is_hp_background(rgb_to_hsv(img.px[<< x, y >>]))})
         IN  IF bg_count >= 2 THEN Some(0) ELSE None
    ELSE None

\* the vertical check of a bar that opens into background: five pixels
\* around the first background sample
FindBorderFullyDepleted(img, s, st) ==
    IF st.background_count > 10 /\ st.first_background_i < 4
    THEN LET x == x_at(s, st.first_background_i)
             bg_count == Cardinality({y \in s.y - 2 .. s.y + 2 :
                             is_hp_background(rgb_to_hsv(img.px[<< x, y >>]))})
         IN  IF bg_count >= 3 THEN Some(0) ELSE None
    ELSE None

RECURSIVE FindBorderLoop(_, _, _, _)
\* `for i in 3..scanline.width() + 1` from i = k on, and what follows it
FindBorderLoop(img, s, k, st) ==
    IF k >= ScanWidth(s) + 1 THEN FindBorderFullyDepleted(img, s, st)
    ELSE
    LET hsv == rgb_to_hsv(img.px[<< x_at(s, k), s.y >>])
    IN  IF st.orange_count < 8 /\ is_hp_yellow(hsv)
        THEN FindBorderLoop(img, s, k + 1,
                 [st EXCEPT !.yellow_count = @ + 1, !.border_count = 0])
        ELSE IF st.yellow_count < 8 /\ is_hp_orange(hsv)
        THEN FindBorderLoop(img, s, k + 1,
                 [st EXCEPT !.orange_count = @ + 1, !.border_count = 0])
        ELSE IF \/ st.yellow_count >= st.orange_count /\ is_hp_border_white(hsv)
                \/ st.orange_count > st.yellow_count /\ is_hp_border_orange(hsv)
        THEN FindBorderLoop(img, s, k + 1,
                 [st EXCEPT !.border_count = @ + 1, !.border_i = k])
        ELSE
        LET st2 == IF is_hp_background(hsv)
                   THEN [st EXCEPT !.background_count = @ + 1,
                                   !.first_background_i = IF @ = -1 THEN k ELSE @]
                   ELSE st
        IN  IF /\ \/ is_hp_bar_frame(hsv)
                  \/ is_hp_background(hsv)
                  \/ is_damage(hsv)
                  \/ is_provisional_damage(hsv)
               /\ st2.border_count >= 1
               /\ st2.border_count <= 4
            THEN Some(st2.border_i + 1)
            ELSE FindBorderLoop(img, s, k + 1, st2)

find_border(img, s) == FindBorderLoop(img, s, 3, FindBorderStart)

\* healthy_count counts the pixel that confirmed the border as well
analyze_hp_CountsConfirmingPixel(img, s) ==
    LET border == find_border(img, s)
    IN  IF border = None THEN RetNone
        ELSE RetSome(Frac(Unwrap(border) + 1, ScanWidth(s)))

analyze_hp(img, s) ==
    LET border == find_border(img, s)
    IN  IF border = None THEN RetNone
        ELSE RetSome(Frac(Unwrap(border), ScanWidth(s)))

\* the generic strategy's pixel classes
is_hp_healthy(hsv) ==
    hsv.h >= 50000 /\ hsv.h <= 65000 /\ hsv.s >= 300 /\ hsv.v >= 900

is_hp_border(hsv) == hsv.s < 250 /\ hsv.v > 900

classify_hp_pixel(rgb) ==
    LET hsv == rgb_to_hsv(rgb)
    IN  IF is_hp_healthy(hsv) THEN "Healthy"
        ELSE IF is_hp_border(hsv) THEN "Border"
        ELSE IF is_damage(hsv) THEN "Damage"
        ELSE IF is_provisional_damage(hsv) THEN "ProvisionalDamage"
        ELSE IF is_hp_background(hsv) THEN "Background"
        ELSE "Unknown"

\* impl From<HpSegment> for BarSegment
HpToBarSegment(seg) ==
    IF seg \in {"Healthy", "Border"} THEN "Foreground"
    ELSE IF seg \in {"Damage", "ProvisionalDamage", "Background"} THEN "Background"
    ELSE "Unknown"

\* a call of hp::analyze_hp(image, scan)
analyze_hp_call ==
    /\ pc = "hp_enter"
    /\ hp_reading' = analyze_hp(image, scanline)
    /\ pc' = "done"
    /\ UNCHANGED << caller, inputVars, scanVars, saVars, splitVars, collectVars,
                    od_i, last_state, od_states, od_value, hud_i, detected >>

\* the generic strategy: find_bar_boundary's result is the reading
analyze_hp_generic_ret ==
    /\ pc = "hp_ret"
    /\ hp_reading' = bar_fill
    /\ pc' = "done"
    /\ UNCHANGED << caller, inputVars, scanVars, saVars, splitVars, collectVars,
                    od_i, last_state, od_states, od_value, hud_i, detected >>

(***************************************************************************)
(* SpecHp: both strategies on bars drawn as a lead-in, a run of fill, a    *)
(* run of border and the rest of the bar, with one pixel past the bar's    *)
(* end and the column the vertical check reads.                            *)
(***************************************************************************)
\* width of the health bar's scanline
HpW == 14

\* the scanline's row: the vertical check reads two rows above and below
HpY == 2

\* the health bar's scanline, running rightwards (P2) or leftwards (P1)
HpScan(dx) ==
    IF dx = 1 THEN [x_start |-> 0, x_end |-> HpW, y |-> HpY]
    ELSE [x_start |-> HpW, x_end |-> 0, y |-> HpY]

\* the colours at the scan offsets 0..width
HpCells(lead, fill, n, border, bw, rest, outside) ==
    [o \in 1 .. HpW + 1 |->
        LET c == o - 1
        IN  IF c = HpW THEN outside
            ELSE IF c < 3 THEN lead
            ELSE IF c < 3 + n THEN fill
            ELSE IF c < 3 + n + bw THEN border
            ELSE rest]

\* the frame: the scanline's row, and the column at scan offset 3 from two
\* rows above to two rows below, nbg of those four background-coloured
HpImage(cells, nbg, s) ==
    [width |-> HpW + 1, height |-> s.y + 3,
     px |-> [p \in ((0 .. HpW) \X {s.y}) \cup ({x_at(s, 3)} \X (s.y - 2 .. s.y + 2)) |->
                IF p[2] = s.y THEN cells[Abs(p[1] - s.x_start) + 1]
                ELSE IF (IF p[2] < s.y THEN p[2] - (s.y - 2) ELSE p[2] - (s.y - 1)) < nbg
                     THEN HPBG
                     ELSE DARK]]

HpColours == {HPYELLOW, HPORANGE, HPBORDER, HPBG, HPFRAME, HPDAMAGE, HPPROV, WHITE, DARK}

HpBars ==
    {HpCells(lead, fill, n, border, bw, rest, outside) :
        lead \in {HPYELLOW, HPFRAME}, fill \in {HPYELLOW, HPORANGE, DARK},
        n \in 0 .. HpW - 3, border \in {WHITE, HPBORDER}, bw \in 0 .. 5,
        rest \in {HPBG, HPDAMAGE, HPPROV, DARK}, outside \in {HPFRAME, HPBG, DARK}}

\* a bar whose border is broken by one hidden pixel: n pixels of fill, b1 of
\* border, a hidden pixel, b2 of border, and the rest of the bar
HpGapCells(fill, border, n, b1, b2, rest) ==
    [o \in 1 .. HpW + 1 |->
        LET c == o - 1
        IN  IF c = HpW THEN HPFRAME
            ELSE IF c < 3 + n THEN fill
            ELSE IF c < 3 + n + b1 THEN border
            ELSE IF c = 3 + n + b1 THEN DARK
            ELSE IF c < 3 + n + b1 + 1 + b2 THEN border
            ELSE rest]

HpGapBars ==
    {HpGapCells(fb[1], fb[2], n, b1, b2, rest) :
        fb \in {<< HPYELLOW, WHITE >>, << HPORANGE, HPBORDER >>},
        n \in 1 .. HpW - 5, b1 \in 1 .. 4, b2 \in 0 .. 4, rest \in {HPBG, DARK}}

InitHp ==
    /\ caller \in {"hp", "hp_generic"}
    /\ pc = IF caller = "hp" THEN "hp_enter" ELSE "fbb_enter"
    /\ scanline \in {HpScan(1), HpScan(-1)}
    /\ image \in {HpImage(cells, nbg, scanline) :
                    cells \in IF caller = "hp" THEN HpBars \cup HpGapBars ELSE HpBars,
                    nbg \in IF caller = "hp" THEN {1, 2} ELSE {2}}
    /\ classifier = [c \in HpColours |-> HpToBarSegment(classify_hp_pixel(c))]
    /\ IdleScan /\ IdleSa /\ IdleSplit /\ IdleCollect /\ IdleGauge

NextHp ==
    \/ analyze_hp_call
    \/ find_bar_boundary_enter
    \/ find_bar_boundary_pixel
    \/ find_bar_boundary_end
    \/ analyze_hp_generic_ret

SpecHp == InitHp /\ [][NextHp]_vars

(***************************************************************************)
(* Properties of the health reader (SpecHp).                               *)
(***************************************************************************)
HpDone == pc = "done" /\ caller \in {"hp", "hp_generic"}

\* C14: the health reader reports either None or a fill ratio r with
\* 0 <= r <= 1, for every image: in the border scan r = b / width where b is
\* what find_border returned, so b never exceeds the scanline width, and in
\* the generic strategy r is what find_bar_boundary returned.
C14_HealthRatioInUnit ==
    HpDone =>
        /\ \/ hp_reading = RetNone
           \/ /\ hp_reading.kind = "Some"
              /\ GeZero(hp_reading.val)
              /\ LeOne(hp_reading.val)
        /\ caller = "hp" =>
              LET b == find_border(image, scanline)
              IN  IF b = None THEN hp_reading = RetNone
                  ELSE /\ Unwrap(b) <= ScanWidth(scanline)
                       /\ hp_reading = RetSome(Frac(Unwrap(b), ScanWidth(scanline)))
        /\ caller = "hp_generic" => hp_reading = bar_fill

\* a full bar: the border is the bar's last pixel and the pixel past the end
\* confirms it, so b is the scanline's width and the ratio 1
C14_Witness ==
    /\ HpDone
    /\ caller = "hp"
    /\ find_border(image, scanline) = Some(ScanWidth(scanline))
    /\ hp_reading = RetSome(Frac(ScanWidth(scanline), ScanWidth(scanline)))

(***************************************************************************)
(* Further properties of find_bar_boundary (SpecScan).                     *)
(***************************************************************************)
\* the samples 0..n were read and sample n is the first Background
IsFirstBackground(n) ==
    /\ \A k \in 0 .. n : SampleInImage(k)
    /\ SegAt(n) = "Background"
    /\ \A k \in 0 .. n - 1 : SegAt(k) # "Background"

\* every sample was read and none is Background
NoBackground ==
    \A k \in 0 .. ScanWidth(scanline) : SampleInImage(k) /\ SegAt(k) # "Background"

\* the largest index below n classified Foreground, as an Option
MaxFgBefore(n) ==
    LET fg == {k \in 0 .. n - 1 : SegAt(k) = "Foreground"}
    IN  IF fg = {} THEN None ELSE Some(CHOOSE k \in fg : \A j \in fg : j <= k)

ScanDone == pc = "done" /\ caller = "scan" /\ bar_fill.kind # "Panic"

\* C21: occlusion is resolved with the most recent confirmed Foreground
\* sample.  While the scan runs, last_fg_i is the largest index classified
\* Foreground so far (so it never decreases).  If a Foreground was seen and
\* the first Background comes directly after a run of Unknown, or the scan
\* ends in a run of Unknown, the result is Some((last_fg_i + 1) / width); if
\* the pixel directly before the first Background is Foreground at index
\* i - 1, the result is Some(i / width).
C21_OcclusionUsesLastForeground ==
    /\ (pc = "fbb_loop" /\ caller = "scan") => last_fg_i = MaxFgBefore(i)
    /\ ScanDone =>
          LET w == ScanWidth(scanline)
          IN  /\ \A n \in 1 .. w :
                    IsFirstBackground(n) =>
                        /\ SegAt(n - 1) = "Foreground"
                              => bar_fill = RetSome(Frac(n, w))
                        /\ (SegAt(n - 1) = "Unknown" /\ IsSome(MaxFgBefore(n)))
                              => bar_fill = RetSome(Frac(Unwrap(MaxFgBefore(n)) + 1, w))
              /\ (/\ NoBackground
                  /\ SegAt(w) = "Unknown"
                  /\ IsSome(MaxFgBefore(w + 1)))
                    => bar_fill = RetSome(Frac(Unwrap(MaxFgBefore(w + 1)) + 1, w))

\* a Foreground sample, a hidden one, then the first Background: the
\* boundary is put just past the Foreground sample, not at the Background
C21_Witness ==
    /\ ScanDone
    /\ IsFirstBackground(2)
    /\ SegAt(0) = "Foreground"
    /\ SegAt(1) = "Unknown"
    /\ bar_fill = RetSome(Frac(1, ScanWidth(scanline)))

\* C24: find_bar_boundary fails fast on a scanline whose bounds exceed the
\* frame: whenever its precondition assertions pass, every coordinate it
\* samples (x_start + i*dx for i in 0..=width, at row y) satisfies
\* x < image width and y < image height, for both scan directions.
C24_AssertionsKeepSamplesInFrame ==
    (caller = "scan" /\ PreconditionsHold(image, scanline)) =>
        \A k \in 1 .. Len(sampled) : InImage(image, sampled[k], scanline.y)

\* C30: find_bar_boundary stops at the first pixel classified Background:
\* every Background sample causes an immediate return, so the tracked
\* previous segment is never Background, no sample read so far (but the one
\* the scan returned on) is Background, and no pixel after the first
\* Background is ever read.
C30_StopsAtFirstBackground ==
    caller = "scan" =>
        /\ prev_segment # "Background"
        /\ pc = "fbb_loop" => \A k \in 0 .. i - 1 : SegAt(k) # "Background"
        /\ ScanDone =>
              \A n \in 0 .. ScanWidth(scanline) :
                  IsFirstBackground(n) =>
                      /\ bar_fill.kind \in {"Some", "None"}
                      /\ i = n
                      /\ Len(sampled) = n + 1

\* a Background behind a hidden border, with further pixels after it that
\* are never read
C30_Witness ==
    /\ ScanDone
    /\ IsFirstBackground(1)
    /\ SegAt(0) = "Unknown"
    /\ ScanWidth(scanline) >= 2
    /\ Len(sampled) = 2
    /\ bar_fill = RetNone

(***************************************************************************)
(* Further properties of read_od_value (SpecOd).                           *)
(***************************************************************************)
\* segment j is an Empty that ends the reading: the first segment, or one
\* directly after a Full segment
EmptyAfterFull(j) ==
    SegState(j) = OdEmpty /\ (j = 0 \/ SegState(j - 1) = OdFull)

\* segment k is the first Partial one and no earlier Empty ends the reading
FirstPartialAt(k) ==
    /\ SegState(k).kind = "Partial"
    /\ \A j \in 0 .. k - 1 : SegState(j).kind # "Partial" /\ ~EmptyAfterFull(j)

\* C22: outside burnout, if segment k is the first segment classified
\* Partial(p) and no earlier segment is an Empty directly preceded by Full (or
\* Empty at index 0), read_od_value returns Normal(k + p), whatever the
\* states of the segments before k and without classifying any segment after
\* k; k <= k + p < k + 1, and every Normal value returned lies in [0, 6].
C22_FirstPartialIsIndexPlusRatio ==
    (OdDone /\ ~AllSamplesLowSaturation) =>
        /\ \A k \in 0 .. 5 :
              FirstPartialAt(k) =>
                  LET p == SegState(k).ratio
                  IN  /\ od_value = RetSome(Normal(AddInt(k, p)))
                      /\ Len(od_states) = k + 1
                      /\ p.den > 0 /\ p.num >= 0 /\ p.num < p.den
        /\ (od_value.kind = "Some" /\ od_value.val.variant = "Normal") =>
              LET v == od_value.val.val
              IN  v.den > 0 /\ v.num >= 0 /\ v.num <= 6 * v.den

\* a hidden segment, an Empty one behind it, a Full one, then the first
\* Partial one at index 3
C22_Witness ==
    /\ OdDone /\ ~AllSamplesLowSaturation
    /\ SegState(0) = OdUnknown
    /\ SegState(1) = OdEmpty
    /\ SegState(2) = OdFull
    /\ FirstPartialAt(3)
    /\ od_value = RetSome(Normal(AddInt(3, SegState(3).ratio)))
    /\ Len(od_states) = 4

(***************************************************************************)
(* Further properties of split_into_rounds (SpecSplit).                    *)
(***************************************************************************)
\* the frames at which both sides are back at or above 0.95 for the first
\* time since some frame with a side below 0.5
ResetFrames == {k \in 1 .. Len(frames) : \E j \in 1 .. k - 1 : RecoveryAfter(j, k)}

\* C23: the round-detection flag is cleared at every round boundary: every
\* round except the last contains a frame with a side's health below 0.5,
\* every round after the first starts with a frame whose two health values
\* are both at or above 0.95, and such a frame starts a round only when a
\* frame with a side below 0.5 precedes it in the round it closes; so a
\* non-empty input has 1 plus the number of reset frames rounds.
C23_FlagClearedAtBoundary ==
    (SplitDone /\ frames # << >>) =>
        /\ \A r \in 1 .. Len(rounds) - 1 :
              \E k \in 1 .. Len(rounds[r]) : IsDamage(rounds[r][k].p1, rounds[r][k].p2)
        /\ \A r \in 2 .. Len(rounds) :
              /\ BothFull(rounds[r][1])
              /\ \E j \in RoundStart(r - 1) .. RoundStart(r) - 1 :
                    RecoveryAfter(j, RoundStart(r))
        /\ \A r \in 1 .. Len(rounds) :
              \A k \in 2 .. Len(rounds[r]) :
                  BothFull(rounds[r][k]) =>
                      \A j \in 1 .. k - 1 : ~IsDamage(rounds[r][j].p1, rounds[r][j].p2)
        /\ Len(rounds) = 1 + Cardinality(ResetFrames)

\* a drop, a recovery, a second frame at full health that starts nothing,
\* a second drop and a second recovery: three rounds
C23_Witness ==
    /\ SplitDone
    /\ Len(frames) = 5
    /\ IsDamage(frames[1].p1, frames[1].p2)
    /\ BothFull(frames[2])
    /\ BothFull(frames[3])
    /\ IsDamage(frames[4].p1, frames[4].p2)
    /\ BothFull(frames[5])
    /\ Len(rounds) = 3
    /\ Len(rounds[2]) = 3

(***************************************************************************)
(* Further properties of the border scan (SpecHp).                         *)
(***************************************************************************)
HpBorderDone == pc = "done" /\ caller = "hp"

\* the colour at scan offset k of the health bar
HpHsvAt(k) == rgb_to_hsv(image.px[<< scanline.x_start + k * ScanDx(scanline), scanline.y >>])

HpFillAt(k) == is_hp_yellow(HpHsvAt(k)) \/ is_hp_orange(HpHsvAt(k))

\* the sample at offset k is border-coloured: white when the yellow fill
\* scanned before it dominates or ties, orange-tinted when orange dominates
HpBorderAt(k) ==
    LET yellow == Cardinality({m \in 3 .. k - 1 : is_hp_yellow(HpHsvAt(m))})
        orange == Cardinality({m \in 3 .. k - 1 : is_hp_orange(HpHsvAt(m))})
    IN  /\ ~HpFillAt(k)
        /\ \/ yellow >= orange /\ is_hp_border_white(HpHsvAt(k))
           \/ orange > yellow /\ is_hp_border_orange(HpHsvAt(k))

\* the sample at offset k is frame, background, damage or provisional damage
HpRecognisedAt(k) ==
    /\ ~HpFillAt(k) /\ ~HpBorderAt(k)
    /\ \/ is_hp_bar_frame(HpHsvAt(k))
       \/ is_hp_background(HpHsvAt(k))
       \/ is_damage(HpHsvAt(k))
       \/ is_provisional_damage(HpHsvAt(k))

\* the samples a..b are a whole run of consecutive border-coloured pixels
HpBorderRun(a, b) ==
    /\ 3 <= a /\ a <= b
    /\ \A m \in a .. b : HpBorderAt(m)
    /\ a = 3 \/ ~HpBorderAt(a - 1)
    /\ b = ScanWidth(scanline) \/ ~HpBorderAt(b + 1)

\* C25: the border scan confirms a border only for a run of 1 to 4
\* consecutive border-coloured pixels that is followed by a pixel recognised
\* as frame, background, damage or provisional damage, and then returns the
\* scan index just past the last border pixel; a run of length 0 or more
\* than 4 is rejected, and border pixels separated by unrecognised pixels
\* are not added together into one run: a run of 1 to 4 with a recognised
\* pixel directly behind it is confirmed whatever border pixels came before.
C25_BorderRunOfOneToFour ==
    HpBorderDone =>
        LET b == find_border(image, scanline)
            w == ScanWidth(scanline)
        IN  /\ (IsSome(b) /\ Unwrap(b) > 0) =>
                  /\ \E a \in Unwrap(b) - 4 .. Unwrap(b) - 1 : HpBorderRun(a, Unwrap(b) - 1)
                  /\ \E k \in Unwrap(b) .. w : HpRecognisedAt(k)
            /\ (\E k \in 4 .. w :
                    /\ HpRecognisedAt(k)
                    /\ \E a \in k - 4 .. k - 1 : HpBorderRun(a, k - 1))
                  => (IsSome(b) /\ Unwrap(b) > 0)

\* the samples scanned that are background-coloured
HpBackgroundSamples ==
    {k \in 3 .. ScanWidth(scanline) : is_hp_background(HpHsvAt(k))}

\* the vertical cross-check at the first background-coloured sample
HpVerticalCheck ==
    LET first == CHOOSE k \in HpBackgroundSamples : \A j \in HpBackgroundSamples : k <= j
        x == scanline.x_start + first * ScanDx(scanline)
    IN  Cardinality({y \in scanline.y - 2 .. scanline.y + 2 :
            is_hp_background(rgb_to_hsv(image.px[<< x, y >>]))}) >= 3

\* C26: when the forward scan confirms no border, find_border returns
\* Some(0), health ratio 0.0, if and only if more than 10 scanned pixels are
\* background-coloured, the first of them is at an index below 4 (the first
\* scanned index, 3) and at least 3 of the 5 pixels of the vertical
\* cross-check at that x are background-coloured; otherwise it returns None.
C26_FullyDepletedIsZero ==
    (HpBorderDone /\ (hp_reading = RetNone \/ IsZero(hp_reading.val))) =>
        (hp_reading = RetSome(Frac(0, ScanWidth(scanline)))
            <=> /\ Cardinality(HpBackgroundSamples) > 10
                /\ \E k \in HpBackgroundSamples : k < 4
                /\ HpVerticalCheck)

\* a bar that is background from the first scanned pixel on, with three of
\* the five pixels of the cross-check background-coloured
C26_Witness ==
    /\ HpBorderDone
    /\ Cardinality(HpBackgroundSamples) > 10
    /\ 3 \in HpBackgroundSamples
    /\ Cardinality({y \in scanline.y - 2 .. scanline.y + 2 :
          is_hp_background(rgb_to_hsv(image.px[<< x_at(scanline, 3), y >>]))}) = 3
    /\ hp_reading = RetSome(Frac(0, ScanWidth(scanline)))

(***************************************************************************)
(* Further properties of read_sa_value (SpecSa).                           *)
(***************************************************************************)
\* the number of probes whose own pixel reads the "ready" overlay colour
OverlayProbes ==
    Cardinality({k \in 1 .. NumProbes :
        LET hsv == rgb_to_hsv(image.px[probes[k]])
        IN  hsv.h >= 25000 /\ hsv.h <= 50000 /\ hsv.s >= 500 /\ hsv.v >= 600})

\* the pixel at (x, y), or the nearest pixel of the frame when (x, y) lies
\* outside it, has a glyph colour
GlyphAt(x, y) ==
    LET cx == IF x < 0 THEN 0 ELSE IF x > image.width - 1 THEN image.width - 1 ELSE x
        cy == IF y < 0 THEN 0 ELSE IF y > image.height - 1 THEN image.height - 1 ELSE y
        hsv == rgb_to_hsv(image.px[<< cx, cy >>])
    IN  is_digit_fill_pixel(hsv) \/ is_digit_outline_pixel(hsv)

\* probe k (1..4) is on: at least 5 of the 9 pixels around it have a glyph
\* colour
ProbeOn(k) ==
    Cardinality({d \in (-1 .. 1) \X (-1 .. 1) :
        GlyphAt(probes[k][1] + d[1], probes[k][2] + d[2])}) >= 5

\* C27: classify_sa_digit returns 3 whenever at least 2 of the 4 probe pixels
\* read the "ready" overlay colour, whatever the digit probes show; otherwise
\* it returns the index of the first probe, in the order 0,1,2,3, whose 3x3
\* neighbourhood majority-votes (at least 5 of 9 pixels) for a glyph colour,
\* even when later probes are on as well; it returns None if and only if
\* fewer than 2 probes read the overlay and no probe is on.
C27_DigitByOverlayThenFirstProbe ==
    SaDone =>
        /\ OverlayProbes >= 2 => stock = Some(3)
        /\ OverlayProbes < 2 =>
              \A k \in 1 .. NumProbes :
                  (ProbeOn(k) /\ \A j \in 1 .. k - 1 : ~ProbeOn(j)) => stock = Some(k - 1)
        /\ stock = None <=> (OverlayProbes < 2 /\ \A k \in 1 .. NumProbes : ~ProbeOn(k))

\* probe 0 is off, probes 1 and 2 are on, one probe reads the overlay: the
\* digit is 1
C27_Witness ==
    /\ SaDone
    /\ OverlayProbes = 1
    /\ ~ProbeOn(1) /\ ProbeOn(2) /\ ProbeOn(3)
    /\ stock = Some(1)

(***************************************************************************)
(* SpecSaLegacy: read_sa_value as analysis/huds/manemon.rs has it.  It     *)
(* differs from the one of manemon/sa.rs in its second assertion only,     *)
(* bar_fill < 1.0 for bar_fill <= 1.0.                                     *)
(***************************************************************************)
\* the second half of manemon.rs's read_sa_value
read_sa_value_fill_legacy ==
    /\ pc = "sa_legacy_ret"
    /\ sa_value' = IF bar_fill.kind = "None" THEN RetNone
                   ELSE IF ~LtOne(bar_fill.val) THEN RetPanic
                   ELSE RetSome(AddInt(Unwrap(stock), bar_fill.val))
    /\ pc' = "done"
    /\ UNCHANGED << caller, inputVars, scanVars, stock, splitVars, collectVars,
                    gaugeVars >>

InitSaLegacy ==
    /\ pc = "sa_enter"
    /\ caller = "sa_legacy"
    /\ image \in {SaImage(digit, bar) :
                    digit \in [0 .. NumProbes - 1 -> DigitColours],
                    bar \in [0 .. SaW - 1 -> BarColours]}
    /\ probes = [k \in 1 .. NumProbes |-> << k - 1, 0 >>]
    /\ classifier = [c \in BarColours |-> classify_sa_pixel(c)]
    /\ scanline \in {[x_start |-> 0, x_end |-> SaW - 1, y |-> SaBarY],
                     [x_start |-> SaW - 1, x_end |-> 0, y |-> SaBarY]}
    /\ stock = None
    /\ sa_value = Pending
    /\ IdleScan /\ IdleSplit /\ IdleCollect /\ IdleGauge

NextSaLegacy ==
    \/ read_sa_value_digit
    \/ find_bar_boundary_enter
    \/ find_bar_boundary_pixel
    \/ find_bar_boundary_end
    \/ read_sa_value_fill_legacy

SpecSaLegacy == InitSaLegacy /\ [][NextSaLegacy]_vars

(***************************************************************************)
(* Properties of both read_sa_value (SpecSa, SpecSaLegacy).                *)
(***************************************************************************)
SaReadDone == pc = "done" /\ caller \in {"sa", "sa_legacy"}

\* C28: read_sa_value never substitutes a default for an unreadable gauge
\* and never aborts: for every image it returns None exactly when the stock
\* digit is unreadable, or the digit is below 3 and the bar boundary scan
\* returns None; otherwise it returns Some(v) with v = digit + fill and
\* 0 <= v <= 3.
C28_NoneOrDigitPlusFill ==
    SaReadDone =>
        /\ sa_value.kind \in {"Some", "None"}
        /\ sa_value = RetNone
              <=> \/ stock = None
                  \/ IsSome(stock) /\ Unwrap(stock) < 3 /\ bar_fill = RetNone
        /\ sa_value.kind = "Some" =>
              /\ sa_value.val = IF Unwrap(stock) = 3 THEN Frac(3, 1)
                                ELSE AddInt(Unwrap(stock), bar_fill.val)
              /\ sa_value.val.den > 0
              /\ sa_value.val.num >= 0
              /\ sa_value.val.num <= 3 * sa_value.val.den

====
